---- MODULE Spec2Model ----
(***************************************************************************)
(* keyline-planner: the tile cache (engine/cache.py) and the pipeline      *)
(* orchestrator (engine/pipeline.py) as a state machine over a small       *)
(* POSIX file system.                                                      *)
(*                                                                         *)
(* Strings are sequences of one-character strings, paths are sequences of  *)
(* path components (pathlib's `parts` below the file-system root).         *)
(***************************************************************************)
EXTENDS Integers, Sequences, FiniteSets, TLC

\* ------------------------------------------------------------------ bounds
\* Number of callers (concurrent in Spec, one after the other in SpecSeq).
NProcs == 2
\* Number of 8192-byte chunks a tile body is streamed in.
NChunks == 2
\* Longest descriptor list handed to ensure_tiles in SpecSeq.
MaxTiles == 2
\* Number of pipeline runs that follow each other in SpecPipe.
MaxRuns == 2

Procs == 1..NProcs

\* ----------------------------------------------------------------- strings
S_raw == <<"r", "a", "w">>
S_derived == <<"d", "e", "r", "i", "v", "e", "d">>
S_cache == <<"c", "a", "c", "h", "e">>
S_tmp == <<".", "t", "m", "p">>
S_metadata_json == <<"m", "e", "t", "a", "d", "a", "t", "a", ".", "j", "s", "o", "n">>
S_1220 == <<"1", "2", "2", "0">>
DigitChars == <<"0", "1", "2", "3", "4", "5", "6", "7", "8", "9">>

\* str.lower() on one character of the model's alphabet.
LowerChar(c) ==
    CASE c = "A" -> "a"
      [] c = "B" -> "b"
      [] c = "C" -> "c"
      [] c = "D" -> "d"
      [] c = "E" -> "e"
      [] c = "F" -> "f"
      [] OTHER -> c

Lower(s) == [i \in 1..Len(s) |-> LowerChar(s[i])]

StartsWith(s, prefix) ==
    /\ Len(s) >= Len(prefix)
    /\ SubSeq(s, 1, Len(prefix)) = prefix

\* s[n:] of Python, n >= 0.
DropFirst(s, n) == IF n >= Len(s) THEN <<>> ELSE SubSeq(s, n + 1, Len(s))

\* ----------------------------------------------------------------- pathlib
RECURSIVE SplitFrom(_, _, _)
\* s.split("/") from position i on, cur being the component read so far.
SplitFrom(s, i, cur) ==
    IF i > Len(s) THEN <<cur>>
    ELSE IF s[i] = "/" THEN <<cur>> \o SplitFrom(s, i + 1, <<>>)
    ELSE SplitFrom(s, i + 1, Append(cur, s[i]))

\* The components pathlib keeps of a string: empty and "." components are
\* dropped, ".." is kept.
Parts(s) == SelectSeq(SplitFrom(s, 1, <<>>), LAMBDA c : c # <<>> /\ c # <<".">>)

IsAbsolute(s) == Len(s) > 0 /\ s[1] = "/"

\* Path.__truediv__: an absolute right operand replaces the left one.
PathJoin(p, s) == IF IsAbsolute(s) THEN Parts(s) ELSE p \o Parts(s)

\* Path.name: the last component, "" for the root.
PathName(p) == IF p = <<>> THEN <<>> ELSE p[Len(p)]

\* Path.parent.
PathParent(p) == IF p = <<>> THEN <<>> ELSE SubSeq(p, 1, Len(p) - 1)

RECURSIVE Resolve(_, _)
\* The directory entry the operating system reaches by a path: a ".."
\* component leads to the parent, at the root to the root itself.
Resolve(p, at) ==
    IF p = <<>> THEN at
    ELSE Resolve(Tail(p), IF Head(p) = <<".", ".">> THEN PathParent(at)
                          ELSE Append(at, Head(p)))

\* The path and its ancestors below the root: what mkdir(parents=True) makes.
Ancestors(p) == {SubSeq(p, 1, n) : n \in 1..Len(p)}

RECURSIVE LastDot(_, _)
\* name.rfind("."), 1-based, 0 when there is none.
LastDot(name, i) ==
    IF i = 0 THEN 0 ELSE IF name[i] = "." THEN i ELSE LastDot(name, i - 1)

\* PurePath.suffix: from the last dot, unless the name starts or ends with it.
Suffix(name) ==
    LET i == LastDot(name, Len(name))
    IN IF 1 < i /\ i < Len(name) THEN SubSeq(name, i, Len(name)) ELSE <<>>

\* A download written in place: the temp path is the final path.
WithSuffixKept(p) == p

\* PurePath.with_suffix(".tmp"); defined for a non-empty name only
\* (pathlib raises ValueError on an empty one).
WithSuffixTmp(p) ==
    LET name == PathName(p)
        stem == SubSeq(name, 1, Len(name) - Len(Suffix(name)))
    IN Append(PathParent(p), stem \o S_tmp)

\* ------------------------------------------------------------- descriptors
\* urlparse(href): the model keeps an href already split into netloc, path
\* and query; urlparse(href).path is the path component.
UrlPath(href) == href.path

Href(netloc, path, query) == [netloc |-> netloc, path |-> path, query |-> query]

None == <<>>
Some(s) == <<s>>

TileInfo(item, coll, href, checksum) ==
    [item_id |-> item, collection_id |-> coll, asset_href |-> href,
     checksum |-> checksum]

\* TileCache.__init__: root, raw_dir, derived_dir.
CacheRoot == <<S_cache>>
RawDir == Append(CacheRoot, S_raw)
DerivedDir == Append(CacheRoot, S_derived)

\* TileCache.tile_path.
tile_path(tile) ==
    LET filename == PathName(Parts(UrlPath(tile.asset_href)))
    IN PathJoin(PathJoin(PathJoin(RawDir, tile.collection_id), tile.item_id),
                filename)

\* ------------------------------------------------------------- environment
\* The tile server: every href holds NChunks chunks, told apart by a tag.
HrefA == Href(<<"h">>, <<"/", "d", "/", "a", ".", "t">>, <<>>)
HrefB == Href(<<"h">>, <<"/", "d", "/", "b", ".", "t">>, <<>>)

ServerTag(href) ==
    CASE UrlPath(href) = UrlPath(HrefA) -> "a"
      [] UrlPath(href) = UrlPath(HrefB) -> "b"
      [] OTHER -> "c"

Chunk(tag, k) == [tag |-> tag, k |-> k]

\* The bytes a sparse file reads back where nothing was written.
Hole == Chunk("0", 0)

\* The body the server holds for href.
GoodBody(href) == [i \in 1..NChunks |-> Chunk(ServerTag(href), i)]

\* A transfer that completes with a damaged last chunk.
DamagedBody(href) ==
    [i \in 1..NChunks |-> Chunk(ServerTag(href), IF i = NChunks THEN 0 ELSE i)]

\* What response.iter_content can deliver for href.
ServerBodies(href) == {GoodBody(href), DamagedBody(href)}

RECURSIVE Sha256Hex(_)
\* hashlib.sha256 over the chunks fed to it, as a hex string: an injective
\* encoding of the chunk sequence (no collisions).
Sha256Hex(chunks) ==
    IF chunks = <<>> THEN <<>>
    ELSE <<Head(chunks).tag, DigitChars[Head(chunks).k + 1]>>
             \o Sha256Hex(Tail(chunks))

\* A _verify_checksum that knows plain hex digests only.
verify_checksum_plain(expected, actual_sha256) ==
    Lower(expected) = Lower(actual_sha256)

\* A _verify_checksum that refuses what it cannot verify.
verify_checksum_strict(expected, actual_sha256) ==
    IF Lower(expected) = Lower(actual_sha256) THEN TRUE
    ELSE IF StartsWith(Lower(expected), S_1220)
         THEN Lower(DropFirst(expected, 4)) = Lower(actual_sha256)
         ELSE FALSE

\* _verify_checksum: TRUE when it returns, FALSE when it raises ValueError.
verify_checksum(expected, actual_sha256) ==
    IF Lower(expected) = Lower(actual_sha256) THEN TRUE
    ELSE IF StartsWith(Lower(expected), S_1220)
         THEN Lower(DropFirst(expected, 4)) = Lower(actual_sha256)
         ELSE TRUE

\* ------------------------------------------------------------------ numbers
\* A Python number: an int, or a float with at most three decimals. Its
\* value is whole + milli / 1000 with 0 <= milli < 1000.
PyInt(w) == [whole |-> w, milli |-> 0, float |-> FALSE]

PyFloat(w, m) == [whole |-> w, milli |-> m, float |-> TRUE]

\* float(n).
ToFloat(n) == [n EXCEPT !.float = TRUE]

\* float("nan"): a float that is not a number.
NaN == [whole |-> 0, milli |-> 0, float |-> TRUE, nan |-> TRUE]

IsNaN(n) == "nan" \in DOMAIN n

\* a < b, a <= b, a == b of Python: every comparison with nan is false.
NumLess(a, b) ==
    /\ ~IsNaN(a) /\ ~IsNaN(b)
    /\ a.whole < b.whole \/ (a.whole = b.whole /\ a.milli < b.milli)

NumEq(a, b) ==
    /\ ~IsNaN(a) /\ ~IsNaN(b)
    /\ a.whole = b.whole /\ a.milli = b.milli

NumLeq(a, b) == NumLess(a, b) \/ NumEq(a, b)

NumMin(S) == CHOOSE a \in S : \A b \in S : NumLeq(a, b)

NumMax(S) == CHOOSE a \in S : \A b \in S : NumLeq(b, a)

RECURSIVE NatStr(_)
\* str(n) of a natural number.
NatStr(n) ==
    IF n < 10 THEN <<DigitChars[n + 1]>>
    ELSE Append(NatStr(n \div 10), DigitChars[(n % 10) + 1])

\* The decimals of m / 1000 as repr prints them: no trailing zero but one.
FracStr(m) ==
    LET d1 == DigitChars[(m \div 100) + 1]
        d2 == DigitChars[((m \div 10) % 10) + 1]
        d3 == DigitChars[(m % 10) + 1]
    IN IF m % 100 = 0 THEN <<d1>>
       ELSE IF m % 10 = 0 THEN <<d1, d2>>
       ELSE <<d1, d2, d3>>

\* json.dumps of a number: an int prints its digits, a float always prints
\* a decimal point (1 -> "1", 1.0 -> "1.0").
JsonNumber(n) ==
    LET neg == n.whole < 0
        w == IF ~neg THEN n.whole
             ELSE IF n.milli = 0 THEN 0 - n.whole ELSE 0 - n.whole - 1
        m == IF neg /\ n.milli # 0 THEN 1000 - n.milli ELSE n.milli
        sign == IF neg THEN <<"-">> ELSE <<>>
    IN IF n.float THEN sign \o NatStr(w) \o <<".">> \o FracStr(m)
       ELSE sign \o NatStr(w)

\* round(x, 2) where canonical_hash applies it: floats only, to the nearest
\* hundredth (the model's inputs hold no tie).
Round2(n) ==
    IF ~n.float THEN n
    ELSE LET r == n.milli % 10
             down == n.milli - r
         IN IF r < 5 THEN [n EXCEPT !.milli = down]
            ELSE IF down + 10 = 1000
                 THEN [n EXCEPT !.whole = @ + 1, !.milli = 0]
                 ELSE [n EXCEPT !.milli = down + 10]

RECURSIVE NatVal(_)
\* int(s) of a string of digits.
NatVal(s) ==
    IF s = <<>> THEN 0
    ELSE 10 * NatVal(SubSeq(s, 1, Len(s) - 1))
         + (CHOOSE d \in 0..9 : DigitChars[d + 1] = s[Len(s)])

IsDigits(s) == \A i \in 1..Len(s) : \E d \in 1..10 : DigitChars[d] = s[i]

\* float(s) of a string: the number, or ok = FALSE where Python raises
\* ValueError. Decimal numerals with a sign and up to three decimals, and
\* "nan", are numbers; the other strings of the model are not.
ParseFloat(s) ==
    LET signed == s # <<>> /\ s[1] \in {"-", "+"}
        neg == s # <<>> /\ s[1] = "-"
        body == IF signed THEN Tail(s) ELSE s
        dots == {i \in 1..Len(body) : body[i] = "."}
        dot == IF dots = {} THEN Len(body) + 1 ELSE CHOOSE i \in dots : TRUE
        ip == SubSeq(body, 1, dot - 1)
        fp == SubSeq(body, dot + 1, Len(body))
        milli == NatVal(fp \o [i \in 1..(3 - Len(fp)) |-> "0"])
        bad == [ok |-> FALSE, val |-> NaN]
    IN IF body = <<"n", "a", "n">> THEN [ok |-> TRUE, val |-> NaN]
       ELSE IF \/ Cardinality(dots) > 1
               \/ ~IsDigits(ip) \/ ~IsDigits(fp)
               \/ ip \o fp = <<>>
               \/ Len(fp) > 3
            THEN bad
       ELSE IF ~neg THEN [ok |-> TRUE, val |-> [whole |-> NatVal(ip), milli |-> milli, float |-> TRUE]]
       ELSE IF milli = 0
            THEN [ok |-> TRUE, val |-> [whole |-> 0 - NatVal(ip), milli |-> 0, float |-> TRUE]]
       ELSE [ok |-> TRUE,
             val |-> [whole |-> 0 - NatVal(ip) - 1, milli |-> 1000 - milli, float |-> TRUE]]

\* --------------------------------------------------------------- text hash
Alphabet ==
    <<"0", "1", "2", "3", "4", "5", "6", "7", "8", "9", "a", "b", "c", "d",
      "e", "f", "g", "h", "i", "j", "k", "l", "m", "n", "o", "p", "q", "r",
      "s", "t", "u", "v", "w", "x", "y", "z", "P", "{", "}", "[",
      "]", "\"", ":", ",", ".", "_", "-", "/", " ">>

\* The code of every character of the alphabet.
CodeOf ==
    [c \in {Alphabet[i] : i \in 1..Len(Alphabet)} |->
        CHOOSE i \in 1..Len(Alphabet) : Alphabet[i] = c]

Code(c) == CodeOf[c]

HexDigits ==
    <<"0", "1", "2", "3", "4", "5", "6", "7", "8", "9", "a", "b", "c", "d",
      "e", "f">>

RECURSIVE Lane(_, _, _, _)
\* One 24-bit lane of the digest of text s: the characters lo..hi, each
\* weighted by its position, summed by halves.
Lane(s, lo, hi, mult) ==
    IF lo > hi THEN mult
    ELSE IF lo = hi THEN Code(s[lo]) * (((lo * mult) % 4093) + 1)
    ELSE LET mid == (lo + hi) \div 2
         IN (Lane(s, lo, mid, mult) + Lane(s, mid + 1, hi, mult)) % 16777216

Hex6(n) ==
    [i \in 1..6 |->
        HexDigits[((n \div (CASE i = 1 -> 1048576 [] i = 2 -> 65536
                              [] i = 3 -> 4096 [] i = 4 -> 256
                              [] i = 5 -> 16 [] OTHER -> 1)) % 16) + 1]]

\* hashlib.sha256(text.encode()).hexdigest(): a digest of three lanes, a
\* function of the text alone, distinct on the texts of the model.
Sha256Text(s) ==
    Hex6(Lane(s, 1, Len(s), 31)) \o Hex6(Lane(s, 1, Len(s), 37))
    \o Hex6(Lane(s, 1, Len(s), 41))

\* s[:n] of Python.
Take(s, n) == IF n >= Len(s) THEN s ELSE SubSeq(s, 1, n)

\* ----------------------------------------------------------- ContourParams
S_elevation == <<"e", "l", "e", "v", "a", "t", "i", "o", "n">>

\* Resolution.STANDARD and Resolution.HIGH, by value.
STANDARD == PyFloat(2, 0)
HIGH == PyFloat(0, 500)

\* The dataclass ContourParams; interval and simplify_tolerance keep the
\* Python type they were given with.
ContourParams(interval, resolution, simplify_tolerance) ==
    [interval |-> interval, attribute_name |-> S_elevation,
     simplify_tolerance |-> simplify_tolerance, resolution |-> resolution]

\* A __post_init__ that checks the interval only.
ParamsIntervalInvalid(p) ==
    NumLeq(p.interval, PyInt(0))

\* ContourParams.__post_init__ raises ValueError.
ParamsInvalid(p) ==
    \/ NumLeq(p.interval, PyInt(0))
    \/ NumLess(p.simplify_tolerance, PyInt(0))

\* json.dumps(..., sort_keys=True, separators=(",", ":")) of the four fields.
ParamsJson(p) ==
    <<"{", "\"", "a", "t", "t", "r", "i", "b", "u", "t", "e", "_", "n", "a", "m", "e", "\"", ":", "\"">> \o p.attribute_name
    \o <<"\"", ",", "\"", "i", "n", "t", "e", "r", "v", "a", "l", "\"", ":">> \o JsonNumber(p.interval)
    \o <<",", "\"", "r", "e", "s", "o", "l", "u", "t", "i", "o", "n", "\"", ":">> \o JsonNumber(p.resolution)
    \o <<",", "\"", "s", "i", "m", "p", "l", "i", "f", "y", "_", "t", "o", "l", "e", "r", "a", "n", "c", "e", "\"", ":">>
    \o JsonNumber(p.simplify_tolerance) \o <<"}">>

\* _params_hash.
params_hash(p) == Take(Sha256Text(ParamsJson(p)), 12)

\* --------------------------------------------------------------------- AOI
\* BBox.__post_init__ raises ValueError.
BBoxInvalid(b) == NumLeq(b.xmax, b.xmin) \/ NumLeq(b.ymax, b.ymin)

\* The members of the enum CRS.
LV95 == "EPSG:2056"
WGS84 == "EPSG:4326"

\* The dataclass BBox, in the default CRS.
BBox(xmin, ymin, xmax, ymax) ==
    [xmin |-> xmin, ymin |-> ymin, xmax |-> xmax, ymax |-> ymax, crs |-> LV95]

\* BBox(..., crs=crs)
BBoxIn(b, crs) == [b EXCEPT !.crs = crs]

\* _LV95_BOUNDS.
LV95_BOUNDS ==
    BBox(PyFloat(2485000, 0), PyFloat(1075000, 0), PyFloat(2834000, 0),
         PyFloat(1296000, 0))

S_Polygon == <<"P", "o", "l", "y", "g", "o", "n">>

\* A GeoJSON Polygon of one ring; a point is <<x, y>>.
Polygon(ring) ==
    [type |-> S_Polygon, coordinates |-> <<ring>>,
     \* the order the dict's keys were inserted in
     keys |-> <<"type", "coordinates">>]

bbox_to_geometry(b) ==
    Polygon(<<<<b.xmin, b.ymin>>, <<b.xmax, b.ymin>>, <<b.xmax, b.ymax>>,
              <<b.xmin, b.ymax>>, <<b.xmin, b.ymin>>>>)

\* validate_geojson_geometry raises ValueError: the type is not a polygon
\* type, the geometry is empty, or a ring has fewer than three distinct
\* points (rings that cross themselves are not among the model's inputs).
GeometryInvalid(g) ==
    \/ g.type # S_Polygon
    \/ g.coordinates = <<>>
    \/ \E i \in 1..Len(g.coordinates) :
          LET ring == g.coordinates[i]
          IN Cardinality({ring[j] : j \in 1..Len(ring)}) < 3

\* A number in thousandths.
Milli(n) == n.whole * 1000 + n.milli

\* The pyproj transformation of a WGS84 point <<lon, lat>> to LV95,
\* linearised at Bern (7.439 E, 46.952 N is 2600000, 1200000) and taken to
\* the metre: 76 m per thousandth of a degree east, 111 m north.
ToLV95(pt) ==
    <<PyFloat(2600000 + 76 * (Milli(pt[1]) - 7439), 0),
      PyFloat(1200000 + 111 * (Milli(pt[2]) - 46952), 0)>>

\* reproject_geometry to LV95: the geometry itself when it is in LV95,
\* else a new dict of the transformed points.
reproject_geometry(g, source_crs) ==
    IF source_crs = LV95 THEN g
    ELSE [type |-> g.type,
          coordinates |-> [i \in 1..Len(g.coordinates) |->
                             [j \in 1..Len(g.coordinates[i]) |->
                                ToLV95(g.coordinates[i][j])]],
          keys |-> <<"type", "coordinates">>]

\* geometry_to_bbox: shapely's bounds, which are floats.
geometry_to_bbox(g) ==
    LET pts == UNION {{g.coordinates[i][j] : j \in 1..Len(g.coordinates[i])} :
                       i \in 1..Len(g.coordinates)}
        xs == {pt[1] : pt \in pts}
        ys == {pt[2] : pt \in pts}
    IN BBox(ToFloat(NumMin(xs)), ToFloat(NumMin(ys)), ToFloat(NumMax(xs)),
            ToFloat(NumMax(ys)))

\* _check_within_switzerland refusing a box that only touches the bounds.
OutsideSwitzerlandTouching(b) ==
    \/ NumLeq(b.xmax, LV95_BOUNDS.xmin)
    \/ NumLeq(LV95_BOUNDS.xmax, b.xmin)
    \/ NumLeq(b.ymax, LV95_BOUNDS.ymin)
    \/ NumLeq(LV95_BOUNDS.ymax, b.ymin)

\* _check_within_switzerland raises ValueError.
OutsideSwitzerland(b) ==
    \/ NumLess(b.xmax, LV95_BOUNDS.xmin)
    \/ NumLess(LV95_BOUNDS.xmax, b.xmin)
    \/ NumLess(b.ymax, LV95_BOUNDS.ymin)
    \/ NumLess(LV95_BOUNDS.ymax, b.ymin)

S_NotBoth == "Provide either geojson or bbox, not both."
S_Either == "Provide either geojson or bbox."
S_BBox == "must be less than"
S_Geometry == "Invalid geometry"
S_Outside == "outside Swiss territory"

\* The dataclass AOI.
AOI(geometry, bbox, source_crs) ==
    [geometry |-> geometry, bbox |-> bbox, source_crs |-> source_crs]

\* What normalise_aoi does once exactly one input is given.
normalise_one(geojson, bbox, crs) ==
    LET bad(msg) == [ok |-> FALSE, aoi |-> None, msg |-> msg]
    IN IF bbox # None /\ BBoxInvalid(bbox[1]) THEN bad(S_BBox)
       ELSE LET given == IF bbox # None THEN bbox_to_geometry(BBoxIn(bbox[1], crs))
                         ELSE geojson[1]
            IN IF GeometryInvalid(given) THEN bad(S_Geometry)
               ELSE LET g == reproject_geometry(given, crs)
                        aoi_bbox == geometry_to_bbox(g)
                    IN IF OutsideSwitzerland(aoi_bbox) THEN bad(S_Outside)
                       ELSE [ok |-> TRUE, aoi |-> Some(AOI(g, aoi_bbox, crs)),
                             msg |-> ""]

\* normalise_aoi with the bounding box validated before the check that
\* exactly one input is given.
normalise_aoi_validating_first(geojson, bbox, crs) ==
    LET bad(msg) == [ok |-> FALSE, aoi |-> None, msg |-> msg]
    IN IF bbox # None /\ BBoxInvalid(bbox[1]) THEN bad(S_BBox)
       ELSE IF geojson # None /\ GeometryInvalid(geojson[1]) THEN bad(S_Geometry)
       ELSE IF geojson # None /\ bbox # None THEN bad(S_NotBoth)
       ELSE IF geojson = None /\ bbox = None THEN bad(S_Either)
       ELSE normalise_one(geojson, bbox, crs)

\* normalise_aoi: the AOI, or the message of the ValueError it raises.
normalise_aoi(geojson, bbox, crs) ==
    LET bad(msg) == [ok |-> FALSE, aoi |-> None, msg |-> msg]
    IN IF geojson # None /\ bbox # None THEN bad(S_NotBoth)
       ELSE IF geojson = None /\ bbox = None THEN bad(S_Either)
       ELSE normalise_one(geojson, bbox, crs)

RECURSIVE JoinComma(_)
\* ",".join(items).
JoinComma(items) ==
    IF items = <<>> THEN <<>>
    ELSE IF Len(items) = 1 THEN items[1]
    ELSE items[1] \o <<",">> \o JoinComma(Tail(items))

JsonPoint(pt) == <<"[">> \o JsonNumber(pt[1]) \o <<",">> \o JsonNumber(pt[2]) \o <<"]">>

JsonRing(ring) ==
    <<"[">> \o JoinComma([j \in 1..Len(ring) |-> JsonPoint(ring[j])]) \o <<"]">>

\* The place of a geometry key in alphabetical order.
KeyRank(k) == IF k = "coordinates" THEN 1 ELSE 2

\* sort_keys=True: the keys in alphabetical order, however they were put in.
SortedKeys(keys) ==
    [i \in 1..Len(keys) |->
        CHOOSE k \in {keys[j] : j \in 1..Len(keys)} : KeyRank(k) = i]

\* One "key":value member of the geometry object.
JsonMember(g, k) ==
    IF k = "coordinates"
    THEN <<"\"", "c", "o", "o", "r", "d", "i", "n", "a", "t", "e", "s", "\"", ":", "[">>
         \o JoinComma([i \in 1..Len(g.coordinates) |-> JsonRing(g.coordinates[i])])
         \o <<"]">>
    ELSE <<"\"", "t", "y", "p", "e", "\"", ":", "\"">> \o g.type \o <<"\"">>

\* json.dumps(geometry, sort_keys=True, separators=(",", ":")).
GeometryJson(g) ==
    LET keys == SortedKeys(g.keys)
    IN <<"{">> \o JoinComma([i \in 1..Len(keys) |-> JsonMember(g, keys[i])])
       \o <<"}">>

\* _round_geometry_coords(geometry, ndigits=2).
RoundedGeometry(g) ==
    [g EXCEPT !.coordinates =
        [i \in 1..Len(@) |->
            [j \in 1..Len(@[i]) |-> <<Round2(@[i][j][1]), Round2(@[i][j][2])>>]]]

\* AOI.canonical_hash.
canonical_hash(aoi) == Take(Sha256Text(GeometryJson(RoundedGeometry(aoi.geometry))), 16)

\* ---------------------------------------------------------------- timeout
\* _DOWNLOAD_TIMEOUT.
DOWNLOAD_TIMEOUT == 120

\* _download_timeout_from_env, raw being os.getenv("KEYLINE_DOWNLOAD_TIMEOUT").
download_timeout_from_env(raw) ==
    IF raw = None THEN ToFloat(PyInt(DOWNLOAD_TIMEOUT))
    ELSE LET parsed == ParseFloat(raw[1])
         IN IF ~parsed.ok THEN ToFloat(PyInt(DOWNLOAD_TIMEOUT))
            ELSE IF NumLeq(parsed.val, PyInt(0)) THEN ToFloat(PyInt(DOWNLOAD_TIMEOUT))
            ELSE parsed.val

\* ------------------------------------------------------------------- state
VARIABLES
    names,     \* file path -> inode: the directory entries of regular files
    data,      \* inode -> chunks: the content of every live inode
    dirs,      \* the directories that exist
    meta,      \* tile directory -> the descriptor its metadata.json records
    call,      \* per caller: the ensure_tiles / download_tile activation
    prev,      \* per caller: what its previous call fetched or died on
    run,       \* the run_contour_pipeline activation
    arts,      \* file path -> the artifact a pipeline run left there
    hist,      \* what the previous pipeline run was, if it succeeded
    located,   \* descriptor -> the paths tile_path has returned for it
    calls      \* the last two calls of the engine's functions: argument, outcome

vars ==
    <<names, data, dirs, meta, call, prev, run, arts, hist, located, calls>>

\* ------------------------------------------------------------- file system
Put(f, k, v) == [x \in (DOMAIN f) \cup {k} |-> IF x = k THEN v ELSE f[x]]

Remove(f, k) == [x \in (DOMAIN f) \ {k} |-> f[x]]

\* Path.is_dir() where Path.exists() was meant.
ExistsAsDir(path) == path \in dirs

\* Path.exists().
Exists(path) == path \in DOMAIN names \/ path \in dirs

\* TileCache.has_tile.
has_tile(tile) == Exists(tile_path(tile))

\* The inode a newly created file gets.
FreshInode == CHOOSE i \in 1..(Cardinality(DOMAIN data) + 1) : i \notin DOMAIN data

\* write(2) of one chunk at chunk offset off; a gap reads back as holes.
WriteAt(content, off, chunk) ==
    [i \in 1..(IF Len(content) > off + 1 THEN Len(content) ELSE off + 1) |->
        IF i = off + 1 THEN chunk
        ELSE IF i <= Len(content) THEN content[i] ELSE Hole]

\* The inodes still reachable: named by a directory entry or held open.
Live(nm, cl) ==
    {nm[x] : x \in DOMAIN nm} \cup ({cl[q].fd : q \in Procs} \ {0})

\* The inode table once unreachable inodes are freed.
Reclaim(dt, nm, cl) == [i \in (DOMAIN dt) \cap Live(nm, cl) |-> dt[i]]

\* ------------------------------------------------------------------ caller
NoError == [kind |-> "none", step |-> "none", k |-> 0]

Error(kind, step, k) == [kind |-> kind, step |-> step, k |-> k]

IdleCall ==
    [pc |-> "idle", tiles |-> <<>>, idx |-> 0, paths |-> <<>>, body |-> <<>>,
     off |-> 0, fd |-> 0, err |-> NoError, result |-> None,
     \* history of the activation, read by the properties only
     order |-> <<>>,    \* the list positions download_tile was called on
     gets |-> <<>>,     \* the list positions an HTTP request was made for
     fetched |-> {},    \* the (descriptor, path) pairs download_tile returned
     stage |-> "none"]  \* where the process was when it died

Ended == {"idle", "done", "failed", "crashed"}

\* The places of download_tile past the cache check and before the rename.
BeforeRename == {"dl_get", "dl_open", "dl_write", "dl_cleanup"}

NoPrev == [fetched |-> {}, crashed |-> None]

CurTile(p) == call[p].tiles[call[p].idx]

\* The activation after download_tile returned path: ensure_tiles appends it
\* and goes on to the next descriptor, or returns the list.
Returned(c, path) ==
    LET c1 == [c EXCEPT !.paths = Append(@, path),
                        !.fetched = @ \cup {[tile |-> c.tiles[c.idx], path |-> path]},
                        !.body = <<>>, !.off = 0, !.fd = 0]
    IN IF c.idx = Len(c.tiles)
       THEN [c1 EXCEPT !.pc = "done", !.result = Some(c1.paths)]
       ELSE [c1 EXCEPT !.pc = "dl_check", !.idx = @ + 1]

\* An ensure_tiles that logs a failed download and goes on with the next
\* descriptor.
RaisedAndSkipped(c, kind) ==
    LET c1 == [c EXCEPT !.body = <<>>, !.off = 0, !.fd = 0]
    IN IF c.idx = Len(c.tiles)
       THEN [c1 EXCEPT !.pc = "done", !.result = Some(c1.paths)]
       ELSE [c1 EXCEPT !.pc = "dl_check", !.idx = @ + 1]

\* The activation after an exception left download_tile: ensure_tiles has
\* no handler, the exception reaches its caller and no list is returned.
Raised(c, kind) ==
    [c EXCEPT !.pc = "failed", !.err = Error(kind, "ensure_tiles", c.idx),
              !.body = <<>>, !.off = 0, !.fd = 0]

\* ------------------------------------------------------------ ensure_tiles
\* TileCache.ensure_tiles(ts) is called: paths = [], then the loop's first
\* download_tile, or the empty list at once.
CallEnsureTiles(p, ts) ==
    /\ call[p].pc \in Ended
    /\ call' = [call EXCEPT ![p] =
                   IF ts = <<>>
                   THEN [IdleCall EXCEPT !.pc = "done", !.result = Some(<<>>)]
                   ELSE [IdleCall EXCEPT !.pc = "dl_check", !.tiles = ts,
                                         !.idx = 1]]
    /\ prev' = [prev EXCEPT ![p] =
                   [fetched |-> call[p].fetched,
                    crashed |-> IF call[p].pc = "crashed"
                                   /\ call[p].stage \in BeforeRename
                                THEN Some(call[p].tiles[call[p].idx])
                                ELSE None]]
    /\ UNCHANGED <<names, data, dirs, meta>>

\* ----------------------------------------------------------- download_tile
\* A download_tile without the cache check: every call goes to the server.
DlCheckNoCache(p) ==
    /\ call[p].pc = "dl_check"
    /\ call' = [call EXCEPT ![p] =
                   [@ EXCEPT !.pc = "dl_get", !.order = Append(@, call[p].idx)]]
    /\ UNCHANGED <<names, data, dirs, meta, prev>>

\* dest = self.tile_path(tile); if dest.exists(): return dest.
DlCheck(p) ==
    /\ call[p].pc = "dl_check"
    /\ LET dest == tile_path(CurTile(p))
           c == [call[p] EXCEPT !.order = Append(@, call[p].idx)]
       IN call' = [call EXCEPT ![p] =
                      IF Exists(dest) THEN Returned(c, dest)
                      ELSE [c EXCEPT !.pc = "dl_get"]]
    /\ UNCHANGED <<names, data, dirs, meta, prev>>

\* dest.parent.mkdir(parents=True, exist_ok=True); requests.get(...);
\* response.raise_for_status(); tmp_path = dest.with_suffix(".tmp").
DlGet(p) ==
    /\ call[p].pc = "dl_get"
    /\ LET tile == CurTile(p)
           dest == tile_path(tile)
           parent == PathParent(dest)
       IN \/ \* mkdir fails: a file is in the way, or the root is unwritable
             /\ Ancestors(parent) \cap DOMAIN names # {} \/ parent \notin dirs
             /\ call' = [call EXCEPT ![p] = Raised(@, "OSError")]
             /\ UNCHANGED dirs
          \/ \* the request fails or answers with an error status
             /\ Ancestors(parent) \cap DOMAIN names = {}
             /\ dirs' = dirs \cup Ancestors(parent)
             /\ call' = [call EXCEPT ![p] =
                           Raised([@ EXCEPT !.gets = Append(@, call[p].idx)], "HTTPError")]
          \/ \* the response arrives; an empty file name has no suffix to set
             /\ Ancestors(parent) \cap DOMAIN names = {}
             /\ dirs' = dirs \cup Ancestors(parent)
             /\ \E b \in ServerBodies(tile.asset_href) :
                   call' = [call EXCEPT ![p] =
                              IF PathName(dest) = <<>>
                              THEN Raised([@ EXCEPT !.gets = Append(@, call[p].idx)], "ValueError")
                              ELSE [@ EXCEPT !.gets = Append(@, call[p].idx), !.body = b,
                                             !.pc = "dl_open"]]
    /\ UNCHANGED <<names, data, meta, prev>>

\* open(tmp_path, "wb"): creates the file, or truncates the one of that name.
DlOpen(p) ==
    /\ call[p].pc = "dl_open"
    /\ LET tmp == WithSuffixTmp(tile_path(CurTile(p)))
           inode == IF tmp \in DOMAIN names THEN names[tmp] ELSE FreshInode
       IN IF tmp \in dirs
          THEN /\ call' = [call EXCEPT ![p] =
                             [@ EXCEPT !.pc = "dl_cleanup",
                                       !.err = Error("OSError", "ensure_tiles", call[p].idx)]]
               /\ UNCHANGED <<names, data>>
          ELSE /\ names' = Put(names, tmp, inode)
               /\ data' = Put(data, inode, <<>>)
               /\ call' = [call EXCEPT ![p] =
                             [@ EXCEPT !.pc = "dl_write", !.fd = inode, !.off = 0]]
    /\ UNCHANGED <<dirs, meta, prev>>

\* One round of `for chunk in response.iter_content(...)`: f.write(chunk),
\* sha256.update(chunk); or the stream breaks and the `with` closes the file.
DlWrite(p) ==
    /\ call[p].pc = "dl_write"
    /\ call[p].off < Len(call[p].body)
    /\ \/ /\ data' = [data EXCEPT ![call[p].fd] =
                          WriteAt(@, call[p].off, call[p].body[call[p].off + 1])]
          /\ call' = [call EXCEPT ![p] = [@ EXCEPT !.off = @ + 1]]
       \/ /\ call' = [call EXCEPT ![p] =
                        [@ EXCEPT !.pc = "dl_cleanup", !.fd = 0,
                                  !.err = Error("ConnectionError", "ensure_tiles", call[p].idx)]]
          /\ data' = Reclaim(data, names, call')
    /\ UNCHANGED <<names, dirs, meta, prev>>

\* The stream is complete: the file is closed, the checksum (if any) is
\* verified against the digest of the streamed chunks, and
\* tmp_path.rename(dest) replaces dest.
DlRename(p) ==
    /\ call[p].pc = "dl_write"
    /\ call[p].off = Len(call[p].body)
    /\ LET tile == CurTile(p)
           dest == tile_path(tile)
           tmp == WithSuffixTmp(dest)
           fail(kind) == [call EXCEPT ![p] =
                            [@ EXCEPT !.pc = "dl_cleanup", !.fd = 0,
                                      !.err = Error(kind, "ensure_tiles", call[p].idx)]]
       IN IF tile.checksum # None
             /\ ~verify_checksum(tile.checksum[1], Sha256Hex(call[p].body))
          THEN /\ call' = fail("ValueError")
               /\ names' = names
          ELSE \/ /\ tmp \notin DOMAIN names
                  /\ call' = fail("FileNotFoundError")
                  /\ names' = names
               \/ /\ tmp \in DOMAIN names
                  /\ call' = fail("OSError")
                  /\ names' = names
               \/ /\ tmp \in DOMAIN names
                  /\ dest \notin dirs
                  /\ names' = Put(Remove(names, tmp), dest, names[tmp])
                  /\ call' = [call EXCEPT ![p] =
                                [@ EXCEPT !.pc = "dl_meta", !.fd = 0]]
    /\ data' = Reclaim(data, names', call')
    /\ UNCHANGED <<dirs, meta, prev>>

\* A handler that moves what was written into place before it re-raises.
DlCleanupPromoting(p) ==
    /\ call[p].pc = "dl_cleanup"
    /\ LET dest == tile_path(CurTile(p))
           tmp == WithSuffixTmp(dest)
       IN names' = IF tmp \in DOMAIN names
                   THEN Put(Remove(names, tmp), dest, names[tmp])
                   ELSE names
    /\ call' = [call EXCEPT ![p] = Raised(@, @.err.kind)]
    /\ data' = Reclaim(data, names', call')
    /\ UNCHANGED <<dirs, meta, prev>>

\* except Exception: tmp_path.unlink(missing_ok=True); raise.
DlCleanup(p) ==
    /\ call[p].pc = "dl_cleanup"
    /\ LET tmp == WithSuffixTmp(tile_path(CurTile(p)))
       IN names' = Remove(names, tmp)
    /\ call' = [call EXCEPT ![p] = Raised(@, @.err.kind)]
    /\ data' = Reclaim(data, names', call')
    /\ UNCHANGED <<dirs, meta, prev>>

\* self._save_tile_metadata(tile, dest.parent); dest.stat(); return dest.
DlMeta(p) ==
    /\ call[p].pc = "dl_meta"
    /\ LET tile == CurTile(p)
           dest == tile_path(tile)
       IN \/ /\ meta' = Put(meta, PathParent(dest), tile)
             /\ call' = [call EXCEPT ![p] =
                           IF dest \in DOMAIN names THEN Returned(@, dest)
                           ELSE Raised(@, "FileNotFoundError")]
          \/ /\ call' = [call EXCEPT ![p] = Raised(@, "OSError")]
             /\ UNCHANGED meta
    /\ UNCHANGED <<names, data, dirs, prev>>

\* The process dies inside the call: its memory and its descriptors are
\* gone, the files stay (the descriptor it died on is kept for the record).
Crash(p) ==
    /\ call[p].pc \notin Ended
    /\ call' = [call EXCEPT ![p] =
                   [IdleCall EXCEPT !.pc = "crashed", !.tiles = call[p].tiles,
                                    !.idx = call[p].idx, !.stage = call[p].pc]]
    /\ data' = Reclaim(data, names, call')
    /\ UNCHANGED <<names, dirs, meta, prev>>

\* The steps of download_tile inside ensure_tiles.
Download(p) ==
    \/ DlCheck(p)
    \/ DlGet(p)
    \/ DlOpen(p)
    \/ DlWrite(p)
    \/ DlRename(p)
    \/ DlCleanup(p)
    \/ DlMeta(p)

\* ------------------------------------------------------------------ reader
\* What a program that opens the file at path now reads, chunk by chunk.
ReadFile(path) == data[names[path]]

\* --------------------------------------------------------------- workloads
TileA == TileInfo(<<"a">>, <<"c">>, HrefA, None)
TileB == TileInfo(<<"b">>, <<"c">>, HrefB, None)

DigestA == Sha256Hex(GoodBody(HrefA))
DigestB == Sha256Hex(GoodBody(HrefB))

\* Tile A with the checksum encodings the tile index can deliver: the right
\* digest and a wrong one, each as plain hex and as a multihash, and an
\* encoding that is neither.
TileA_plain == [TileA EXCEPT !.checksum = Some(DigestA)]
TileA_multi == [TileA EXCEPT !.checksum = Some(S_1220 \o DigestA)]
TileA_plain_bad == [TileA EXCEPT !.checksum = Some(DigestB)]
TileA_multi_bad == [TileA EXCEPT !.checksum = Some(S_1220 \o DigestB)]
TileA_other == [TileA EXCEPT !.checksum = Some(<<"m", "d", "5", ":", "x">>)]

ChecksumTiles ==
    {TileA_plain, TileA_multi, TileA_plain_bad, TileA_multi_bad, TileA_other}

BaseTiles == {TileA, TileB}

ListsUpTo(S, n) == UNION {[1..m -> S] : m \in 0..n}

\* The lists ensure_tiles is called with, one caller at a time.
SeqLists == ListsUpTo(BaseTiles, MaxTiles) \cup {<<t>> : t \in ChecksumTiles}

\* The lists concurrent callers use.
ConcLists == {<<t>> : t \in BaseTiles}

AllTiles == BaseTiles \cup ChecksumTiles

\* Another asset of item a: its file name has the stem of tile A's and
\* another suffix.
TileA_sibling ==
    TileInfo(<<"a">>, <<"c">>, Href(<<"h">>, <<"/", "d", "/", "a", ".", "u">>, <<>>), None)

\* The descriptors two concurrent callers take, the first and the second.
PairLists == <<{<<TileA>>}, {<<TileA_sibling>>, <<TileB>>}>>

TilePaths == {tile_path(t) : t \in AllTiles}

\* ---------------------------------------------------------------- pipeline
S_mosaic_vrt == <<"m", "o", "s", "a", "i", "c", ".", "v", "r", "t">>
S_dem_clip_tif == <<"d", "e", "m", "_", "c", "l", "i", "p", ".", "t", "i", "f">>
S_contours_geojson == <<"c", "o", "n", "t", "o", "u", "r", "s", ".", "g", "e", "o", "j", "s", "o", "n">>
S_manifest_json == <<"m", "a", "n", "i", "f", "e", "s", "t", ".", "j", "s", "o", "n">>

\* The arguments of run_contour_pipeline (crs = LV95, cache_root = CacheRoot).
Args(geojson, bbox, interval, simplify_tolerance, output_dir, save_clipped_dem) ==
    [geojson |-> geojson, bbox |-> bbox, interval |-> interval,
     resolution |-> STANDARD, simplify_tolerance |-> simplify_tolerance,
     output_dir |-> output_dir, save_clipped_dem |-> save_clipped_dem]

\* The defaults of the signature.
DefaultArgs == Args(None, None, PyFloat(1, 0), PyFloat(0, 0), None, TRUE)

\* The AOIs the pipeline is run with: a parcel near Bern as a bbox, none
\* given, and a bbox in the wrong country.
BBoxBern ==
    BBox(PyFloat(2600000, 0), PyFloat(1200000, 0), PyFloat(2600100, 0),
         PyFloat(1200100, 0))
BBoxAbroad ==
    BBox(PyFloat(100, 0), PyFloat(100, 0), PyFloat(200, 0), PyFloat(200, 0))

AoiArgs ==
    {<<None, Some(BBoxBern)>>, <<None, None>>, <<None, Some(BBoxAbroad)>>}

OutDir == <<<<"o">>>>

PipeArgs ==
    {Args(a[1], a[2], i, PyFloat(0, 0), o, s) :
        a \in AoiArgs, i \in {PyFloat(1, 0), PyInt(0)},
        o \in {None, Some(OutDir)}, s \in BOOLEAN}

\* The descriptors tile_path is applied to: ids with and without a slash,
\* one file name under two directories of the server.
PathTiles ==
    {TileInfo(i, c, Href(<<"h">>, h, <<>>), None) :
        c \in {<<"a">>, <<"a", "/", "b">>},
        i \in {<<"c">>, <<"b", "/", "c">>},
        h \in {<<"/", "d", "/", "f", ".", "t">>, <<"/", "e", "/", "f", ".", "t">>}}

\* Descriptors as _parse_stac_item builds them, item.id and
\* item.collection_id copied as the tile index sent them: plain names, a
\* parent reference, an absolute path.
IdTiles ==
    {TileInfo(i, c, HrefA, None) :
        c \in {<<"c">>, <<".", ".">>, <<"/", "x">>},
        i \in {<<"a">>, <<".", ".", "/", ".", ".", "/", ".", ".", "/", "x">>}}

\* What the tile index answers for the AOI.
IndexAnswers == {<<TileA>>, <<TileA, TileB>>}

\* The calls of run_contour_pipeline in the order of its body.
StepOrder ==
    <<"normalise_aoi", "ContourParams", "output_dir", "discover_tiles",
      "ensure_tiles", "build_vrt", "clip_dem", "get_dem_stats",
      "generate_contours", "count_contours", "unlink", "write_manifest">>

IdleRun ==
    [pc |-> "idle", id |-> 0, args |-> DefaultArgs, aoi |-> None,
     aoi_hash |-> <<>>, params |-> None, output_dir |-> <<>>, tiles |-> <<>>,
     tile_paths |-> <<>>, err |-> NoError, result |-> None,
     \* the calls made so far, read by the properties only
     trace |-> <<>>]

NoHist == [ok |-> FALSE, args |-> DefaultArgs, tiles |-> <<>>, output_dir |-> <<>>]

RunEnded == {"idle", "done", "failed"}

\* The step named step begins: the activation is at that call.
At(step) == run.pc = step

\* The call returned: go on with the next statement.
PipeNext(r, step, next) == [r EXCEPT !.pc = next, !.trace = Append(@, step)]

\* A pipeline that wraps what its steps raise in an error of its own.
PipeRaisedWrapped(r, step, err) ==
    [r EXCEPT !.pc = "failed", !.trace = Append(@, step),
              !.err = Error("RuntimeError", "run_contour_pipeline", 0)]

\* The call raised: run_contour_pipeline has no handler, the exception
\* leaves it as it is and nothing after the call runs.
PipeRaised(r, step, err) ==
    [r EXCEPT !.pc = "failed", !.trace = Append(@, step), !.err = err]

\* TileCache.derived_dir_for with the directory's parts in the wrong order.
derived_dir_swapped(aoi_hash, params) ==
    PathJoin(PathJoin(DerivedDir, params_hash(params)), aoi_hash)

\* The path TileCache.derived_dir_for computes.
derived_dir(aoi_hash, params) ==
    PathJoin(PathJoin(DerivedDir, aoi_hash), params_hash(params))

\* The regular files that exist, tiles and artifacts.
Files == (DOMAIN names) \cup (DOMAIN arts)

\* run_contour_pipeline(...) is called.
PipeStart(a) ==
    /\ run.pc \in RunEnded
    /\ run.id < MaxRuns
    /\ run' = [IdleRun EXCEPT !.pc = "normalise_aoi", !.id = run.id + 1, !.args = a]
    /\ hist' = IF run.pc = "done"
               THEN [ok |-> TRUE, args |-> run.args, tiles |-> run.tiles,
                     output_dir |-> run.output_dir]
               ELSE NoHist
    /\ UNCHANGED <<names, data, dirs, meta, call, prev, arts, located, calls>>

\* aoi = normalise_aoi(geojson, bbox, crs); aoi_hash = aoi.canonical_hash().
PipeNormalise ==
    /\ At("normalise_aoi")
    /\ LET n == normalise_aoi(run.args.geojson, run.args.bbox, LV95)
       IN run' = IF n.ok
                 THEN PipeNext([run EXCEPT !.aoi = n.aoi,
                                           !.aoi_hash = canonical_hash(n.aoi[1])],
                               "normalise_aoi", "ContourParams")
                 ELSE PipeRaised(run, "normalise_aoi",
                                 Error("ValueError", "normalise_aoi", 0))
    /\ UNCHANGED <<names, data, dirs, meta, call, prev, arts, hist, located, calls>>

\* params = ContourParams(...); cache = TileCache(cache_root).
PipeParams ==
    /\ At("ContourParams")
    /\ LET p == ContourParams(run.args.interval, run.args.resolution,
                              run.args.simplify_tolerance)
       IN run' = IF ParamsInvalid(p)
                 THEN PipeRaised(run, "ContourParams",
                                 Error("ValueError", "ContourParams", 0))
                 ELSE PipeNext([run EXCEPT !.params = Some(p)],
                               "ContourParams", "output_dir")
    /\ UNCHANGED <<names, data, dirs, meta, call, prev, arts, hist, located, calls>>

\* A pipeline that always works in the derived directory of the cache.
PipeOutputDirDerived ==
    /\ At("output_dir")
    /\ LET d == derived_dir(run.aoi_hash, run.params[1])
       IN \/ /\ Ancestors(d) \cap Files = {}
             /\ dirs' = dirs \cup Ancestors(d)
             /\ run' = PipeNext([run EXCEPT !.output_dir = d],
                                "output_dir", "discover_tiles")
          \/ /\ Ancestors(d) \cap Files # {} \/ d \notin dirs
             /\ dirs' = dirs
             /\ run' = PipeRaised(run, "output_dir",
                                  Error("OSError", "output_dir", 0))
    /\ UNCHANGED <<names, data, meta, call, prev, arts, hist, located, calls>>

\* output_dir = cache.derived_dir_for(aoi_hash, params), or
\* output_dir.mkdir(parents=True, exist_ok=True): mkdir fails when a file is
\* in the way, and may fail when the directory is yet to be made.
PipeOutputDir ==
    /\ At("output_dir")
    /\ LET d == IF run.args.output_dir = None
                THEN derived_dir(run.aoi_hash, run.params[1])
                ELSE run.args.output_dir[1]
       IN \/ /\ Ancestors(d) \cap Files = {}
             /\ dirs' = dirs \cup Ancestors(d)
             /\ run' = PipeNext([run EXCEPT !.output_dir = d],
                                "output_dir", "discover_tiles")
          \/ /\ Ancestors(d) \cap Files # {} \/ d \notin dirs
             /\ dirs' = dirs
             /\ run' = PipeRaised(run, "output_dir",
                                  Error("OSError", "output_dir", 0))
    /\ UNCHANGED <<names, data, meta, call, prev, arts, hist, located, calls>>

\* tiles = discover_tiles(aoi, resolution): the index is unreachable, has
\* no tile for the AOI, or answers with a non-empty list.
PipeDiscover ==
    /\ At("discover_tiles")
    /\ \/ run' = PipeRaised(run, "discover_tiles",
                            Error("ConnectionError", "discover_tiles", 0))
       \/ run' = PipeRaised(run, "discover_tiles",
                            Error("ValueError", "discover_tiles", 0))
       \/ \E ts \in IndexAnswers :
             run' = PipeNext([run EXCEPT !.tiles = ts],
                             "discover_tiles", "ensure_tiles")
    /\ UNCHANGED <<names, data, dirs, meta, call, prev, arts, hist, located, calls>>

\* tile_paths = cache.ensure_tiles(tiles): the call is made.
PipeEnsureTiles ==
    /\ At("ensure_tiles")
    /\ CallEnsureTiles(1, run.tiles)
    /\ run' = [run EXCEPT !.pc = "ensuring"]
    /\ UNCHANGED <<arts, hist, located, calls>>

\* download_tile works inside ensure_tiles.
PipeDownload ==
    /\ At("ensuring")
    /\ Download(1)
    /\ UNCHANGED <<run, arts, hist, located, calls>>

\* ensure_tiles returned the paths, or raised.
PipeEnsureReturn ==
    /\ At("ensuring")
    /\ call[1].pc \in {"done", "failed"}
    /\ run' = IF call[1].pc = "done"
              THEN PipeNext([run EXCEPT !.tile_paths = call[1].result[1]],
                            "ensure_tiles", "build_vrt")
              ELSE PipeRaised(run, "ensure_tiles", call[1].err)
    /\ UNCHANGED <<names, data, dirs, meta, call, prev, arts, hist, located, calls>>

\* What an external tool or a write_text leaves at path for this run.
Artifact(kind) == [kind |-> kind, writer |-> run.id]

\* build_vrt(tile_paths, output_dir / "mosaic.vrt"): gdalbuildvrt writes the
\* mosaic, or exits with an error.
PipeBuildVrt ==
    /\ At("build_vrt")
    /\ LET vrt_path == PathJoin(run.output_dir, S_mosaic_vrt)
       IN IF run.tile_paths = <<>>
          THEN /\ run' = PipeRaised(run, "build_vrt",
                                    Error("ValueError", "build_vrt", 0))
               /\ arts' = arts
          ELSE \/ /\ run' = PipeRaised(run, "build_vrt",
                                       Error("CalledProcessError", "build_vrt", 0))
                  /\ arts' = arts
               \/ /\ arts' = Put(arts, vrt_path, Artifact("vrt"))
                  /\ run' = PipeNext(run, "build_vrt", "clip_dem")
    /\ UNCHANGED <<names, data, dirs, meta, call, prev, hist, located, calls>>

\* clip_dem(vrt_path, aoi, output_dir / "dem_clip.tif"): gdalwarp writes the
\* clipped raster, or exits with an error.
PipeClipDem ==
    /\ At("clip_dem")
    /\ LET dem_clip_path == PathJoin(run.output_dir, S_dem_clip_tif)
       IN \/ /\ run' = PipeRaised(run, "clip_dem",
                                  Error("CalledProcessError", "clip_dem", 0))
             /\ arts' = arts
          \/ /\ arts' = Put(arts, dem_clip_path, Artifact("dem"))
             /\ run' = PipeNext(run, "clip_dem", "get_dem_stats")
    /\ UNCHANGED <<names, data, dirs, meta, call, prev, hist, located, calls>>

\* A pipeline that counts the contours before it has generated them.
PipeDemStatsThenCount ==
    /\ At("get_dem_stats")
    /\ run' = PipeNext(run, "get_dem_stats", "count_contours")
    /\ UNCHANGED <<names, data, dirs, meta, call, prev, arts, hist, located, calls>>

\* dem_stats = get_dem_stats(dem_clip_path): rasterio reads the raster.
PipeDemStats ==
    /\ At("get_dem_stats")
    /\ LET dem_clip_path == PathJoin(run.output_dir, S_dem_clip_tif)
       IN \/ run' = PipeRaised(run, "get_dem_stats",
                               Error("RasterioIOError", "get_dem_stats", 0))
          \/ /\ dem_clip_path \in DOMAIN arts
             /\ run' = PipeNext(run, "get_dem_stats", "generate_contours")
    /\ UNCHANGED <<names, data, dirs, meta, call, prev, arts, hist, located, calls>>

\* generate_contours(dem_clip_path, output_dir / "contours.geojson", params):
\* gdal_contour exits with an error, or the processed features are written.
PipeContours ==
    /\ At("generate_contours")
    /\ LET contours_path == PathJoin(run.output_dir, S_contours_geojson)
       IN \/ /\ run' = PipeRaised(run, "generate_contours",
                                  Error("CalledProcessError", "generate_contours", 0))
             /\ arts' = arts
          \/ /\ arts' = Put(arts, contours_path, Artifact("contours"))
             /\ run' = PipeNext(run, "generate_contours", "count_contours")
    /\ UNCHANGED <<names, data, dirs, meta, call, prev, hist, located, calls>>

\* contour_count = count_contours(contours_path): the file is read back.
PipeCount ==
    /\ At("count_contours")
    /\ LET contours_path == PathJoin(run.output_dir, S_contours_geojson)
       IN \/ run' = PipeRaised(run, "count_contours",
                               Error("OSError", "count_contours", 0))
          \/ /\ contours_path \in DOMAIN arts
             /\ run' = PipeNext(run, "count_contours", "unlink")
    /\ UNCHANGED <<names, data, dirs, meta, call, prev, arts, hist, located, calls>>

\* The clipped raster removed whether the caller keeps it or not.
PipeUnlinkAlways ==
    /\ At("unlink")
    /\ arts' = Remove(arts, PathJoin(run.output_dir, S_dem_clip_tif))
    /\ run' = PipeNext(run, "unlink", "write_manifest")
    /\ UNCHANGED <<names, data, dirs, meta, call, prev, hist, located, calls>>

\* if save_clipped_dem: keep it; else dem_clip_path.unlink(missing_ok=True).
PipeUnlink ==
    /\ At("unlink")
    /\ LET dem_clip_path == PathJoin(run.output_dir, S_dem_clip_tif)
       IN arts' = IF run.args.save_clipped_dem THEN arts
                  ELSE Remove(arts, dem_clip_path)
    /\ run' = PipeNext(run, "unlink", "write_manifest")
    /\ UNCHANGED <<names, data, dirs, meta, call, prev, hist, located, calls>>

\* _write_manifest(...); result = ProcessingResult(...); return result.
PipeManifest ==
    /\ At("write_manifest")
    /\ LET manifest_path == PathJoin(run.output_dir, S_manifest_json)
           manifest == [kind |-> "manifest", writer |-> run.id,
                        aoi_hash |-> run.aoi_hash, parameters |-> run.params[1],
                        tiles_used |-> [i \in 1..Len(run.tiles) |-> run.tiles[i].item_id]]
       IN \/ /\ run' = PipeRaised(run, "write_manifest",
                                  Error("OSError", "write_manifest", 0))
             /\ arts' = arts
          \/ /\ arts' = Put(arts, manifest_path, manifest)
             /\ run' = [PipeNext(run, "write_manifest", "done") EXCEPT
                           !.result = Some([contours_path |->
                                               PathJoin(run.output_dir, S_contours_geojson),
                                            clipped_dem_path |->
                                               IF run.args.save_clipped_dem
                                               THEN Some(PathJoin(run.output_dir,
                                                                  S_dem_clip_tif))
                                               ELSE None,
                                            aoi_hash |-> run.aoi_hash])]
    /\ UNCHANGED <<names, data, dirs, meta, call, prev, hist, located, calls>>

\* ------------------------------------------------------- function calls
\* The dataclass equality of two ContourParams: field by field, numbers by
\* value (1 == 1.0).
ParamsEq(p, q) ==
    /\ NumEq(p.interval, q.interval)
    /\ p.attribute_name = q.attribute_name
    /\ NumEq(p.simplify_tolerance, q.simplify_tolerance)
    /\ NumEq(p.resolution, q.resolution)

\* The ContourParams values that pass __post_init__, with numbers given as
\* int and as float.
ParamInputs ==
    {p \in {ContourParams(i, r, s) :
                i \in {PyInt(1), PyFloat(1, 0), PyFloat(0, 500), PyInt(2)},
                r \in {STANDARD, HIGH},
                s \in {PyFloat(0, 0), PyInt(0), PyFloat(1, 0)}} :
        ~ParamsInvalid(p)}

\* The call is noted; the call before it is kept when it was a call of
\* the same function, older ones are dropped.
Noted(fn, arg, ret) ==
    LET c == [fn |-> fn, arg |-> arg, ret |-> ret]
    IN IF calls = <<>> \/ calls[Len(calls)].fn # fn THEN <<c>>
       ELSE <<calls[Len(calls)], c>>

\* _params_hash and the directory derived_dir_for makes of it, for every
\* input (evaluated once).
ParamsHashes ==
    [p \in ParamInputs |->
        [hash |-> params_hash(p), dir |-> derived_dir(<<"0">>, p)]]

\* _params_hash(p) is called, and derived_dir_for with it.
CallParamsHash(p) ==
    /\ calls' = Noted("params_hash", p, ParamsHashes[p])
    /\ UNCHANGED <<names, data, dirs, meta, call, prev, run, arts, hist, located>>

\* A parcel whose first corner has the easting x; keys is the order the
\* geometry dict was filled in.
Parcel(x, keys) ==
    [Polygon(<<<<x, PyFloat(1200000, 0)>>,
               <<PyFloat(2600100, 0), PyFloat(1200000, 0)>>,
               <<PyFloat(2600100, 0), PyFloat(1200100, 0)>>,
               <<x, PyFloat(1200000, 0)>>>>) EXCEPT !.keys = keys]

\* The AOIs canonical_hash is called on: eastings as int and as float, equal
\* and unequal after rounding, under either key order, with either bbox and
\* source CRS.
AoiInputs ==
    {AOI(Parcel(x, v[1]), v[2], v[3]) :
        x \in {PyInt(2600000), PyFloat(2600000, 0), PyFloat(2600000, 4),
               PyFloat(2600000, 996), PyFloat(2600001, 0)},
        v \in {<<<<"type", "coordinates">>, BBoxBern, "EPSG:2056">>,
               <<<<"coordinates", "type">>, BBoxBern, "EPSG:2056">>,
               <<<<"type", "coordinates">>, BBoxAbroad, "EPSG:2056">>,
               <<<<"type", "coordinates">>, BBoxBern, "EPSG:4326">>}}

\* AOI.canonical_hash() for every input (evaluated once).
CanonicalHashes == [a \in AoiInputs |-> canonical_hash(a)]

\* a.canonical_hash() is called.
CallCanonicalHash(a) ==
    /\ calls' = Noted("canonical_hash", a, CanonicalHashes[a])
    /\ UNCHANGED <<names, data, dirs, meta, call, prev, run, arts, hist, located>>

\* The values KEYLINE_DOWNLOAD_TIMEOUT is set to, and unset.
TimeoutSettings ==
    {None} \cup {Some(s) : s \in {<<"3", "0", "0">>,
                          <<"0", ".", "5">>,
                          <<"0">>,
                          <<"-", "5">>,
                          <<"-", "0", ".", "5">>,
                          <<"n", "o", "t", "-", "a", "-", "n", "u", "m", "b", "e", "r">>,
                          <<>>,
                          <<"n", "a", "n">>,
                          <<"1", ".", "5", ".", "2">>}}

\* TileCache(cache_root) reads its timeout from the environment.
CallTimeoutFromEnv(raw) ==
    /\ calls' = Noted("download_timeout", raw, download_timeout_from_env(raw))
    /\ UNCHANGED <<names, data, dirs, meta, call, prev, run, arts, hist, located>>

\* ---------------------------------------------------------- normalise_aoi
\* The bounding boxes given to normalise_aoi: inside the reference box,
\* far from it, empty, touching its west edge and its north-east corner,
\* overlapping its south-west corner, a metre or a millimetre off each
\* edge, around all of it, with whole numbers, and one in degrees.
BoxInputs ==
    {BBoxBern, BBoxAbroad,
     BBox(PyFloat(2600100, 0), PyFloat(1200000, 0), PyFloat(2600100, 0), PyFloat(1200100, 0)),
     BBox(PyFloat(2484000, 0), PyFloat(1100000, 0), PyFloat(2485000, 0), PyFloat(1100100, 0)),
     BBox(PyFloat(2834000, 0), PyFloat(1296000, 0), PyFloat(2835000, 0), PyFloat(1297000, 0)),
     BBox(PyFloat(2484000, 0), PyFloat(1074000, 0), PyFloat(2486000, 0), PyFloat(1076000, 0)),
     BBox(PyFloat(2484000, 0), PyFloat(1100000, 0), PyFloat(2484999, 999), PyFloat(1100100, 0)),
     BBox(PyFloat(2600000, 0), PyFloat(1296000, 1), PyFloat(2600100, 0), PyFloat(1297000, 0)),
     BBox(PyFloat(2600000, 0), PyFloat(1074000, 0), PyFloat(2600100, 0), PyFloat(1074999, 0)),
     BBox(PyFloat(2834001, 0), PyFloat(1200000, 0), PyFloat(2835000, 0), PyFloat(1200100, 0)),
     BBox(PyFloat(2000000, 0), PyFloat(1000000, 0), PyFloat(3000000, 0), PyFloat(1400000, 0)),
     BBox(PyInt(2484000), PyInt(1100000), PyInt(2485000), PyInt(1100100)),
     BBox(PyFloat(7, 400), PyFloat(46, 900), PyFloat(7, 500), PyFloat(47, 0))}

\* The geometries given to it: a parcel at Bern, the polygon of each box
\* that is not empty, and a point.
GeometryInputs ==
    {Parcel(PyFloat(2600000, 0), <<"type", "coordinates">>),
     [type |-> <<"P", "o", "i", "n", "t">>,
      coordinates |-> <<<<<<PyFloat(2600000, 0), PyFloat(1200000, 0)>>>>>>,
      keys |-> <<"type", "coordinates">>]}
    \cup {bbox_to_geometry(b) : b \in {c \in BoxInputs : ~BBoxInvalid(c)}}

\* Degrees are what a WGS84 input holds: the magnitude of its numbers.
InDegrees(g) ==
    \A i \in 1..Len(g.coordinates) : \A j \in 1..Len(g.coordinates[i]) :
        \A k \in 1..2 : g.coordinates[i][j][k].whole < 360

\* The calls of the model: every pairing of no or one geometry with no or
\* one box in LV95, and in WGS84 those whose numbers are degrees.
NormaliseInputs ==
    {i \in [geojson : {None} \cup {Some(g) : g \in GeometryInputs},
            bbox : {None} \cup {Some(b) : b \in BoxInputs},
            crs : {LV95, WGS84}] :
        i.crs = WGS84 =>
            /\ i.geojson # None => InDegrees(i.geojson[1])
            /\ i.bbox # None => InDegrees(bbox_to_geometry(i.bbox[1]))}

\* normalise_aoi(geojson, bbox, crs) is called.
CallNormaliseAoi(geojson, bbox, crs) ==
    /\ calls' = <<[fn |-> "normalise_aoi",
                   arg |-> [geojson |-> geojson, bbox |-> bbox, crs |-> crs],
                   ret |-> normalise_aoi(geojson, bbox, crs)]>>
    /\ UNCHANGED <<names, data, dirs, meta, call, prev, run, arts, hist, located>>

\* ------------------------------------------------------------- discovery
MaxAssets == 2

S_tif == <<".", "t", "i", "f">>
S_tiff == <<"t", "i", "f", "f">>
SWISSALTI3D_COLLECTION == <<"c">>

\* sub in s, of two strings.
Contains(s, sub) ==
    \E i \in 0..(Len(s) - Len(sub)) : SubSeq(s, i + 1, i + Len(sub)) = sub

\* s.endswith(suffix)
EndsWith(s, suffix) ==
    /\ Len(s) >= Len(suffix)
    /\ SubSeq(s, Len(s) - Len(suffix) + 1, Len(s)) = suffix

\* A JSON value of an asset's extra fields: a number or a text.
JsonNum(n) == [kind |-> "num", num |-> n, text |-> <<>>]
JsonText(s) == [kind |-> "text", num |-> PyInt(0), text |-> s]

\* bool(v) of an optional JSON value.
Truthy(v) ==
    /\ v # None
    /\ IF v[1].kind = "num"
       THEN IsNaN(v[1].num) \/ ~NumEq(v[1].num, PyInt(0))
       ELSE v[1].text # <<>>

\* a or b
PyOr(a, b) == IF Truthy(a) THEN a ELSE b

\* float(v) of a JSON value, ok = FALSE where Python raises ValueError.
FloatOf(v) ==
    IF v.kind = "num" THEN [ok |-> TRUE, val |-> ToFloat(v.num)]
    ELSE ParseFloat(v.text)

\* A pystac asset under its key, and an item.
Asset(key, media_type, gsd, eo_gsd, href, checksum) ==
    [key |-> key, media_type |-> media_type, gsd |-> gsd, eo_gsd |-> eo_gsd,
     href |-> href, checksum |-> checksum]

Item(id, collection_id, assets) ==
    [id |-> id, collection_id |-> collection_id, assets |-> assets]

RECURSIVE parse_assets(_, _, _)
\* _parse_stac_item from its i-th asset on: the tile of the first asset
\* that is a GeoTIFF of the target GSD, None when there is none, and
\* raised = TRUE when float(asset_gsd) raises ValueError on the way.
parse_assets(item, i, target_gsd) ==
    IF i > Len(item.assets) THEN [raised |-> FALSE, tile |-> None]
    ELSE LET asset == item.assets[i]
             media_type == IF asset.media_type = None \/ asset.media_type[1] = <<>>
                           THEN <<>> ELSE asset.media_type[1]
             asset_gsd == PyOr(asset.gsd, asset.eo_gsd)
             f == FloatOf(asset_gsd[1])
         IN IF ~Contains(Lower(media_type), S_tiff) /\ ~EndsWith(asset.key, S_tif)
            THEN parse_assets(item, i + 1, target_gsd)
            ELSE IF asset_gsd # None /\ ~f.ok
            THEN [raised |-> TRUE, tile |-> None]
            ELSE IF asset_gsd # None /\ ~NumEq(f.val, target_gsd)
            THEN parse_assets(item, i + 1, target_gsd)
            ELSE [raised |-> FALSE,
                  tile |-> Some(TileInfo(item.id,
                                         IF item.collection_id = None
                                            \/ item.collection_id[1] = <<>>
                                         THEN SWISSALTI3D_COLLECTION
                                         ELSE item.collection_id[1],
                                         asset.href, asset.checksum))]

parse_stac_item(item, target_gsd) == parse_assets(item, 1, target_gsd)

\* What the STAC server does to one discovery: fault names the call that
\* raises a RequestException or APIError ("open", "search", "items" or
\* "none"), conformance whether the first search raises DoesNotConformTo,
\* items the items the search yields, and yielded how many of them are
\* yielded before an "items" fault.
Answer(fault, conformance, items, yielded) ==
    [fault |-> fault, conformance |-> conformance, items |-> items,
     yielded |-> yielded]

S_ConnectionError == "ConnectionError"
S_ValueError == "ValueError"
S_NoTilesFound == "No swissALTI3D tiles found"
S_CouldNotConvert == "could not convert string to float"

Failed(kind, msg) == [kind |-> kind, msg |-> msg, tiles |-> <<>>]
Tiles(ts) == [kind |-> "return", msg |-> "", tiles |-> ts]

RECURSIVE collect_tiles(_, _, _, _)
\* The loop over search.items(): the tiles appended so far are ts, the
\* next item is the i-th.
collect_tiles(answer, i, ts, target_gsd) ==
    LET last == IF answer.fault = "items" THEN answer.yielded
                ELSE Len(answer.items)
    IN IF i > last
       THEN IF answer.fault = "items"
            THEN Failed(S_ConnectionError, "Failed to reach STAC API")
            ELSE IF ts = <<>> THEN Failed(S_ValueError, S_NoTilesFound)
            ELSE Tiles(ts)
       ELSE LET tile == parse_stac_item(answer.items[i], target_gsd)
            IN IF tile.raised THEN Failed(S_ValueError, S_CouldNotConvert)
               ELSE IF tile.tile # None
               THEN collect_tiles(answer, i + 1, Append(ts, tile.tile[1]), target_gsd)
               ELSE collect_tiles(answer, i + 1, ts, target_gsd)

\* discover_tiles: its list of tiles, or the exception it raises.
discover_tiles(answer, resolution) ==
    IF answer.fault \in {"open", "search"}
    THEN Failed(S_ConnectionError, "Failed to reach STAC API")
    ELSE collect_tiles(answer, 1, <<>>, resolution)

\* The assets of the model's items: a GeoTIFF by its key at 2 m, one by
\* its media type at "0.5" m, an asset that is no GeoTIFF, and a GeoTIFF
\* whose gsd is a text that is no number.
StacAssets ==
    LET tif == <<"a">> \o S_tif
    IN {Asset(tif, None, Some(JsonNum(PyInt(2))), None, HrefA, None),
        Asset(<<"m">>, Some(<<"i", "/", "T", "I", "F", "F">>),
              Some(JsonText(<<"0", ".", "5">>)), None, HrefB, None),
        Asset(<<"m">>, Some(<<"t", "/", "x">>), None, None, HrefA, None),
        Asset(tif, None, Some(JsonText(<<"n", "/", "a">>)), None, HrefA, None)}

\* Two more: a GeoTIFF whose gsd of 0 gives way to its eo:gsd, and one
\* without any gsd.
OtherAssets ==
    LET tif == <<"a">> \o S_tif
    IN {Asset(tif, None, Some(JsonNum(PyInt(0))),
              Some(JsonNum(PyFloat(0, 500))), HrefB, None),
        Asset(tif, None, None, None, HrefA, None)}

AssetLists == UNION {[1..n -> StacAssets] : n \in 0..MaxAssets}

\* The first item carries up to MaxAssets assets, the second at most one.
ItemLists ==
    {<<>>} \cup {<<Item(<<"a">>, None, as)>> : as \in AssetLists}
           \cup {<<Item(<<"a">>, None, as), Item(<<"b">>, None, bs)>> :
                    as \in AssetLists, bs \in {l \in AssetLists : Len(l) <= 1}}

\* The answers of the model: every item list from a server without fault,
\* and a few item lists under each fault, with and without a collection
\* id, with and without the conformance retry.
Answers ==
    LET few == {<<>>, <<Item(<<"a">>, Some(<<"k">>), <<>>)>>}
                 \cup {<<Item(<<"a">>, Some(<<"k">>), <<x>>),
                         Item(<<"b">>, Some(<<>>), <<x>>)>> : x \in StacAssets \cup OtherAssets}
    IN {Answer("none", FALSE, is, 0) : is \in ItemLists}
       \cup {Answer(f, c, is, 0) :
                f \in {"none", "open", "search"}, c \in BOOLEAN, is \in few}
       \cup {a \in {Answer("items", c, is, y) :
                       c \in BOOLEAN, is \in few, y \in 0..MaxTiles} :
               a.yielded <= Len(a.items)}

\* discover_tiles is called against a server that gives this answer.
CallDiscoverTiles(answer, resolution) ==
    /\ calls' = <<[fn |-> "discover_tiles",
                   arg |-> [answer |-> answer, resolution |-> resolution],
                   ret |-> discover_tiles(answer, resolution)]>>
    /\ UNCHANGED <<names, data, dirs, meta, call, prev, run, arts, hist, located>>

\* -------------------------------------------------------------- contours
MaxFeatures == 3

\* A contour feature: a LineString and, unless the attribute is missing,
\* its elevation.
Feature(elevation, line) == [elevation |-> elevation, line |-> line]

\* sort_key without the bounding box's min-y.
sort_key_without_miny(f) ==
    LET elev == IF f.elevation = None THEN PyFloat(0, 0) ELSE f.elevation[1]
    IN <<elev, ToFloat(NumMin({f.line[j][1] : j \in 1..Len(f.line)})), PyFloat(0, 0)>>

\* sort_key of _build_canonical_geojson: (elevation, min-x, min-y), the
\* elevation being 0.0 where the attribute is missing.
sort_key(f) ==
    LET elev == IF f.elevation = None THEN PyFloat(0, 0) ELSE f.elevation[1]
    IN <<elev, ToFloat(NumMin({f.line[j][1] : j \in 1..Len(f.line)})),
         ToFloat(NumMin({f.line[j][2] : j \in 1..Len(f.line)}))>>

\* a < b of two tuples of three numbers.
TupleLess(a, b) ==
    \/ NumLess(a[1], b[1])
    \/ NumEq(a[1], b[1]) /\ NumLess(a[2], b[2])
    \/ NumEq(a[1], b[1]) /\ NumEq(a[2], b[2]) /\ NumLess(a[3], b[3])

RECURSIVE InsertByKey(_, _)
\* f put into a sorted list behind every feature whose key is not greater
\* than its own.
InsertByKey(fs, f) ==
    IF fs = <<>> THEN <<f>>
    ELSE IF TupleLess(sort_key(f), sort_key(fs[1])) THEN <<f>> \o fs
    ELSE <<fs[1]>> \o InsertByKey(Tail(fs), f)

RECURSIVE sorted(_)
\* sorted(features, key=sort_key): the stable sort.
sorted(features) ==
    IF features = <<>> THEN <<>>
    ELSE InsertByKey(sorted(SubSeq(features, 1, Len(features) - 1)),
                     features[Len(features)])

\* _build_canonical_geojson: the features of the collection it returns.
build_canonical_geojson(features) == sorted(features)

\* The lines of the model: from the origin, a step north of it, a step
\* east of it.
Lines ==
    {<<<<PyFloat(0, 0), PyFloat(0, 0)>>, <<PyFloat(1, 0), PyFloat(0, 0)>>>>,
     <<<<PyFloat(1, 0), PyFloat(2, 0)>>, <<PyFloat(0, 0), PyFloat(1, 0)>>>>,
     <<<<PyFloat(1, 0), PyFloat(0, 0)>>, <<PyFloat(2, 0), PyFloat(0, 0)>>>>}

\* The features of the model: each line at 100 m, the first also at 200 m
\* and without the attribute.
Features ==
    {Feature(Some(PyFloat(100, 0)), l) : l \in Lines}
    \cup {Feature(h, l) : h \in {Some(PyFloat(200, 0)), None},
                          l \in {<<<<PyFloat(0, 0), PyFloat(0, 0)>>,
                                   <<PyFloat(1, 0), PyFloat(0, 0)>>>>}}

FeatureLists == UNION {[1..n -> Features] : n \in 0..MaxFeatures}

\* _build_canonical_geojson(features, params) is called.
CallBuildCanonicalGeojson(features) ==
    /\ calls' = <<[fn |-> "build_canonical_geojson", arg |-> features,
                   ret |-> build_canonical_geojson(features)]>>
    /\ UNCHANGED <<names, data, dirs, meta, call, prev, run, arts, hist, located>>

\* ---------------------------------------------------------- specifications
Init ==
    /\ names = <<>>
    /\ data = <<>>
    /\ dirs = {}
    /\ meta = <<>>
    /\ call = [p \in Procs |-> IdleCall]
    /\ prev = [p \in Procs |-> NoPrev]
    /\ run = IdleRun
    /\ arts = <<>>
    /\ hist = NoHist
    /\ located = [t \in PathTiles |-> {}]
    /\ calls = <<>>

Step(p) ==
    /\ Download(p) \/ Crash(p)
    /\ UNCHANGED <<run, arts, hist, located, calls>>

\* Callers sharing one cache root, each downloading one tile.
Next ==
    \/ \E p \in Procs : \E ts \in ConcLists :
          /\ call[p].pc = "idle"
          /\ CallEnsureTiles(p, ts)
          /\ UNCHANGED <<run, arts, hist, located, calls>>
    \/ \E p \in Procs : Step(p)

Spec == Init /\ [][Next]_vars

\* Two callers sharing one cache root, never on the same descriptor.
NextPair ==
    \/ \E p \in {1, 2} : \E ts \in PairLists[p] :
          /\ call[p].pc = "idle"
          /\ CallEnsureTiles(p, ts)
          /\ UNCHANGED <<run, arts, hist, located, calls>>
    \/ \E p \in {1, 2} : Step(p)

SpecPair == Init /\ [][NextPair]_vars

\* One caller: calls follow each other, none overlaps another.
NextSeq ==
    \/ \E ts \in SeqLists : CallEnsureTiles(1, ts) /\ UNCHANGED <<run, arts, hist, located, calls>>
    \/ Step(1)

SpecSeq == Init /\ [][NextSeq]_vars

\* One caller downloading one tile the tile index returned, ids as they came.
NextIds ==
    \/ \E t \in IdTiles :
          /\ call[1].pc = "idle"
          /\ CallEnsureTiles(1, <<t>>)
          /\ UNCHANGED <<run, arts, hist, located, calls>>
    \/ Step(1)

SpecIds == Init /\ [][NextIds]_vars

\* Pipeline runs one after the other on one cache root.
\* Calls that give both a geometry and a box, a geometry that is no
\* polygon, and a negative simplify_tolerance.
InvalidArgs ==
    {Args(Some(Parcel(PyFloat(2600000, 0), <<"type", "coordinates">>)),
          Some(BBoxBern), PyFloat(1, 0), PyFloat(0, 0), None, FALSE),
     Args(Some([type |-> <<"P", "o", "i", "n", "t">>,
                coordinates |-> <<<<<<PyFloat(2600000, 0), PyFloat(1200000, 0)>>>>>>,
                keys |-> <<"type", "coordinates">>]),
          None, PyFloat(1, 0), PyFloat(0, 0), None, FALSE),
     Args(None, Some(BBoxBern), PyFloat(1, 0), PyFloat(-1, 0), Some(OutDir), FALSE)}

NextPipe ==
    \/ \E a \in PipeArgs \cup InvalidArgs : PipeStart(a)
    \/ PipeNormalise
    \/ PipeParams
    \/ PipeOutputDir
    \/ PipeDiscover
    \/ PipeEnsureTiles
    \/ PipeDownload
    \/ PipeEnsureReturn
    \/ PipeBuildVrt
    \/ PipeClipDem
    \/ PipeDemStats
    \/ PipeContours
    \/ PipeCount
    \/ PipeUnlink
    \/ PipeManifest

SpecPipe == Init /\ [][NextPipe]_vars

\* tile_path(t) is called and its result noted.
LocateTile(t) ==
    /\ located' = [located EXCEPT ![t] = @ \cup {tile_path(t)}]
    /\ UNCHANGED <<names, data, dirs, meta, call, prev, run, arts, hist, calls>>

\* TileCache.tile_path called on descriptors in any order, any number of
\* times.
NextPath == \E t \in PathTiles : LocateTile(t)

SpecPath == Init /\ [][NextPath]_vars

\* The engine's functions called on their own, in any order.
NextFn ==
    \/ \E p \in ParamInputs : CallParamsHash(p)
    \/ \E a \in AoiInputs : CallCanonicalHash(a)
    \/ \E raw \in TimeoutSettings : CallTimeoutFromEnv(raw)
    \/ \E answer \in Answers, r \in {STANDARD, HIGH} : CallDiscoverTiles(answer, r)
    \/ \E i \in NormaliseInputs : CallNormaliseAoi(i.geojson, i.bbox, i.crs)

SpecFn == Init /\ [][NextFn]_vars

\* Contour collections are built, one after another.
NextSort == \E features \in FeatureLists : CallBuildCanonicalGeojson(features)

SpecSort == Init /\ [][NextSort]_vars

\* ================================================================== claims
InSeq(x, seq) == \E i \in 1..Len(seq) : seq[i] = x

HexChars ==
    {"0", "1", "2", "3", "4", "5", "6", "7", "8", "9",
     "a", "b", "c", "d", "e", "f", "A", "B", "C", "D", "E", "F"}

\* The digest a checksum string carries: the string itself, or what follows
\* the multihash prefix 1220.
DigestPart(checksum) ==
    IF StartsWith(Lower(checksum), S_1220) THEN DropFirst(checksum, 4)
    ELSE checksum

\* A hex string of the length of a SHA-256 digest (of the model's digests).
IsSha256Digest(s) ==
    /\ Len(s) = Len(DigestA)
    /\ \A i \in 1..Len(s) : s[i] \in HexChars

\* The descriptor's checksum is a SHA-256 digest other than that of body.
ChecksumMismatch(tile, body) ==
    /\ tile.checksum # None
    /\ IsSha256Digest(DigestPart(tile.checksum[1]))
    /\ Lower(DigestPart(tile.checksum[1])) # Lower(Sha256Hex(body))

\* C1 (as claimed): whenever a file exists at a tile's final path, what a
\* reader reads there is a complete downloaded body, never a partially
\* written file, in every interleaving of concurrent download_tile calls.
C1_FinalPathComplete ==
    \A t \in AllTiles :
        tile_path(t) \in DOMAIN names
            => ReadFile(tile_path(t)) \in ServerBodies(t.asset_href)

\* C2 (as claimed): a download whose body does not have the SHA-256 digest
\* the descriptor carries, as plain hex or behind the 1220 prefix, is never
\* promoted to the final path: download_tile does not get past the rename.
C2_MismatchNeverPromoted ==
    \A p \in Procs :
        call[p].pc = "dl_meta" => ~ChecksumMismatch(CurTile(p), call[p].body)

\* C5: a download_tile call on a descriptor for which an earlier call of
\* the same caller returned (earlier in this list, or in the previous
\* call) returns at once with the same path and makes no HTTP request; no
\* list position is requested twice.
C5_SecondCallIsCacheHit ==
    \A p \in Procs :
        LET c == call[p]
        IN /\ \A i \in 1..Len(c.order) :
                 \A x \in prev[p].fetched
                          \cup {[tile |-> c.tiles[j], path |-> c.paths[j]] :
                                  j \in 1..(i - 1)} :
                     x.tile = c.tiles[i]
                         => /\ ~InSeq(i, c.gets)
                            /\ i <= Len(c.paths)
                            /\ c.paths[i] = x.path
           /\ \A m, n \in 1..Len(c.gets) : c.gets[m] = c.gets[n] => m = n

\* C5 witness: ensure_tiles([A, A]) returned after one request.
C5_Witness ==
    \E p \in Procs :
        /\ call[p].pc = "done"
        /\ call[p].tiles = <<TileA, TileA>>
        /\ call[p].gets = <<1>>
        /\ call[p].paths = <<tile_path(TileA), tile_path(TileA)>>

\* C6: ensure_tiles calls download_tile on positions 1, 2, ... in order;
\* when it returns, the list holds tile_path(tiles[i]) at every i; when a
\* download fails at position k it raises that error, returns no list and
\* has called download_tile on no position after k.
C6_EnsureTilesInOrder ==
    \A p \in Procs :
        LET c == call[p]
        IN /\ c.order = [i \in 1..Len(c.order) |-> i]
           /\ c.pc = "done"
                => c.result = Some([i \in 1..Len(c.tiles) |-> tile_path(c.tiles[i])])
           /\ c.pc = "failed"
                => /\ c.result = None
                   /\ c.err.kind # "none"
                   /\ c.err.k = Len(c.order)
                   /\ Len(c.paths) = c.err.k - 1

\* C6 witness: the first of two downloads failed, the second was never tried.
C6_Witness ==
    \E p \in Procs :
        /\ call[p].pc = "failed"
        /\ Len(call[p].tiles) = 2
        /\ call[p].err.k = 1
        /\ call[p].order = <<1>>

\* C7: after a crash inside download_tile(d) between the cache check and
\* the rename, nothing is at tile_path(d) (has_tile is false) and the tile's
\* directory holds at most the temp file; the next download_tile(d) that
\* returns has requested the tile again.
C7_CrashLeavesNoEntry ==
    \A p \in Procs :
        LET c == call[p]
        IN /\ (c.pc = "crashed" /\ c.stage \in BeforeRename)
                => LET dest == tile_path(c.tiles[c.idx])
                   IN /\ ~has_tile(c.tiles[c.idx])
                      /\ \A f \in DOMAIN names :
                            PathParent(f) = PathParent(dest)
                                => f = WithSuffixTmp(dest)
           /\ (/\ prev[p].crashed # None
               /\ Len(c.paths) >= 1
               /\ c.tiles[1] = prev[p].crashed[1])
                => (c.gets # <<>> /\ c.gets[1] = 1)

\* C7 witness: the call after a crash on tile A downloaded it in full.
C7_Witness ==
    \E p \in Procs :
        /\ prev[p].crashed = Some(TileA)
        /\ call[p].pc = "done"
        /\ call[p].tiles = <<TileA>>
        /\ call[p].gets = <<1>>
        /\ has_tile(TileA)
        /\ ReadFile(tile_path(TileA)) = GoodBody(HrefA)

\* The (collection_id, item_id, filename) triple of a descriptor.
Triple(t) ==
    <<t.collection_id, t.item_id, PathName(Parts(UrlPath(t.asset_href)))>>

\* C9 (as claimed): every call of tile_path on a descriptor returns the
\* same path, and descriptors whose triples differ never get the same path.
C9_TilePathInjective ==
    /\ \A t \in PathTiles : Cardinality(located[t]) <= 1
    /\ \A t1, t2 \in PathTiles :
          Triple(t1) # Triple(t2) => located[t1] \cap located[t2] = {}

\* The step a failed run stopped at.
LastStep == run.trace[Len(run.trace)]

ManifestsOf(id) ==
    {f \in DOMAIN arts : arts[f].kind = "manifest" /\ arts[f].writer = id}

\* C3: when a step of run_contour_pipeline raises, the steps made are the
\* body's calls up to that step and none after it, the run has written no
\* manifest.json and returned nothing, and the exception the caller gets is
\* the one that step raised (for ensure_tiles: the one ensure_tiles raised).
C3_FailureAbortsUnchanged ==
    run.pc = "failed" =>
        /\ run.trace = SubSeq(StepOrder, 1, Len(run.trace))
        /\ run.err # NoError
        /\ run.err.step = LastStep
        /\ LastStep = "ensure_tiles" =>
              call[1].pc = "failed" /\ run.err = call[1].err
        /\ ManifestsOf(run.id) = {}
        /\ run.result = None

C3_Witness ==
    /\ run.pc = "failed"
    /\ run.id = 2
    /\ hist.ok
    /\ LastStep = "ensure_tiles"
    /\ run.err.kind = "HTTPError"

\* C4 (as claimed): between runs, a manifest.json lies only next to artifacts
\* written by the run that wrote it.
C4_ManifestMatchesArtifacts ==
    run.pc \in RunEnded =>
        \A m \in DOMAIN arts :
            arts[m].kind = "manifest" =>
                \A f \in DOMAIN arts :
                    PathParent(f) = PathParent(m) => arts[f].writer = arts[m].writer

\* The AOI and the parameters of two runs are the same.
SameInputs(a, b) ==
    /\ a.geojson = b.geojson
    /\ a.bbox = b.bbox
    /\ a.interval = b.interval
    /\ a.resolution = b.resolution
    /\ a.simplify_tolerance = b.simplify_tolerance

\* The run repeats the previous one, which succeeded, and has called
\* ensure_tiles on the same descriptors.
RepeatsSuccess ==
    /\ hist.ok
    /\ SameInputs(run.args, hist.args)
    /\ run.tiles = hist.tiles
    /\ run.pc = "ensuring" \/ InSeq("ensure_tiles", run.trace)

\* C8: a run that repeats a successful run with the same AOI, parameters,
\* cache root and descriptors makes no download request; ensure_tiles only
\* looks each descriptor up and returns.
C8_RepeatedRunDownloadsNothing ==
    RepeatsSuccess =>
        /\ call[1].gets = <<>>
        /\ call[1].pc \in {"dl_check", "done"}

C8_Witness ==
    /\ RepeatsSuccess
    /\ run.id = 2
    /\ Len(run.tiles) = 2
    /\ run.pc = "done"
    /\ call[1].order = <<1, 2>>

\* C10: derived_dir_for(aoi_hash, params) returns
\* <root>/derived/<aoi_hash>/<_params_hash(params)> and the directory exists
\* when it returns; called where the directory exists already it does not
\* fail; and it changes no file.
C10_DerivedDirFor ==
    [][(run.pc = "output_dir" /\ run.args.output_dir = None
        /\ run'.pc # "output_dir") =>
          LET d == DerivedDir \o <<run.aoi_hash, params_hash(run.params[1])>>
          IN /\ run'.pc = "discover_tiles" =>
                   run'.output_dir = d /\ d \in dirs'
             /\ d \in dirs => run'.pc = "discover_tiles"
             /\ dirs \subseteq dirs'
             /\ arts' = arts /\ names' = names /\ data' = data]_vars

C10_Witness ==
    /\ run.id = 2
    /\ hist.ok
    /\ run.args.output_dir = None
    /\ run.pc = "discover_tiles"
    /\ run.output_dir = hist.output_dir
    /\ \E f \in DOMAIN arts : PathParent(f) = run.output_dir

\* The calls noted of function fn.
CallsOf(fn) == {i \in 1..Len(calls) : calls[i].fn = fn}

\* C11 (as claimed): ContourParams values that compare equal have the same
\* _params_hash and the same derived directory.
C11_EqualParamsSameHash ==
    \A i, j \in CallsOf("params_hash") :
        ParamsEq(calls[i].arg, calls[j].arg) => calls[i].ret = calls[j].ret

\* The value a coordinate has once rounded to two decimals.
RoundedValue(n) == Round2(ToFloat(n))

\* Two geometries of the same shape whose coordinates are equal after
\* rounding to two decimals.
SameRoundedCoordinates(g, h) ==
    /\ g.type = h.type
    /\ Len(g.coordinates) = Len(h.coordinates)
    /\ \A i \in 1..Len(g.coordinates) :
          /\ Len(g.coordinates[i]) = Len(h.coordinates[i])
          /\ \A j \in 1..Len(g.coordinates[i]) : \A k \in 1..2 :
                NumEq(RoundedValue(g.coordinates[i][j][k]),
                      RoundedValue(h.coordinates[i][j][k]))

\* C12 (as claimed): AOIs whose coordinates are equal after rounding to two
\* decimals have the same canonical_hash, whatever the key order, the
\* numeric type of a coordinate, the bbox and the source CRS.
C12_HashOfRoundedCoordinates ==
    \A i, j \in CallsOf("canonical_hash") :
        SameRoundedCoordinates(calls[i].arg.geometry, calls[j].arg.geometry)
            => calls[i].ret = calls[j].ret

\* The descriptor's checksum is the digest of body, plain or behind 1220.
ChecksumMatches(tile, body) ==
    /\ tile.checksum # None
    /\ \/ tile.checksum[1] = Sha256Hex(body)
       \/ tile.checksum[1] = S_1220 \o Sha256Hex(body)

\* C13: when the body has been streamed in full and the descriptor's
\* checksum is its SHA-256 digest, plain or behind the prefix 1220, the
\* step that follows raises no checksum error: it puts the temp file with
\* that body at tile_path(d), unless the rename itself fails or the process
\* dies; and a call that returns for such a descriptor returns tile_path(d).
C13_MatchingChecksumPromoted ==
    [][\A p \in Procs :
          (/\ call[p].pc = "dl_write"
           /\ call[p].off = Len(call[p].body)
           /\ ChecksumMatches(CurTile(p), call[p].body)
           /\ call'[p] # call[p])
          => LET dest == tile_path(CurTile(p))
             IN \/ /\ call'[p].pc = "dl_meta"
                   /\ dest \in DOMAIN names'
                   /\ data'[names'[dest]] = call[p].body
                \/ /\ call'[p].pc = "dl_cleanup"
                   /\ call'[p].err.kind \in {"OSError", "FileNotFoundError"}
                \/ call'[p].pc = "crashed"]_vars

C13_Witness ==
    /\ call[1].pc = "done"
    /\ call[1].tiles = <<TileA_multi>>
    /\ call[1].gets = <<1>>
    /\ call[1].result = Some(<<tile_path(TileA_multi)>>)
    /\ ReadFile(tile_path(TileA_multi)) = GoodBody(HrefA)

\* The descriptor's checksum is neither a hex SHA-256 digest nor a string
\* behind the prefix 1220.
ChecksumUnknown(tile) ==
    /\ tile.checksum # None
    /\ ~IsSha256Digest(tile.checksum[1])
    /\ ~StartsWith(Lower(tile.checksum[1]), S_1220)

\* C14: when the body has been streamed in full and the descriptor's
\* checksum is in an unknown encoding, the step that follows raises no
\* checksum error whatever the body is: it puts the temp file at
\* tile_path(d), unless the rename itself fails or the process dies.
C14_UnknownChecksumAccepted ==
    [][\A p \in Procs :
          (/\ call[p].pc = "dl_write"
           /\ call[p].off = Len(call[p].body)
           /\ ChecksumUnknown(CurTile(p))
           /\ call'[p] # call[p])
          => LET dest == tile_path(CurTile(p))
             IN \/ /\ call'[p].pc = "dl_meta"
                   /\ dest \in DOMAIN names'
                   /\ data'[names'[dest]] = call[p].body
                \/ /\ call'[p].pc = "dl_cleanup"
                   /\ call'[p].err.kind \in {"OSError", "FileNotFoundError"}
                \/ call'[p].pc = "crashed"]_vars

C14_Witness ==
    /\ call[1].pc = "done"
    /\ call[1].tiles = <<TileA_other>>
    /\ ChecksumUnknown(TileA_other)
    /\ call[1].result = Some(<<tile_path(TileA_other)>>)
    /\ ReadFile(tile_path(TileA_other)) = DamagedBody(HrefA)

\* C19 (as claimed): the timeout read from the environment is a positive
\* number: the default when the setting is unset, not a number or not
\* positive, the setting's number otherwise.
C19_TimeoutPositive ==
    \A i \in CallsOf("download_timeout") :
        LET raw == calls[i].arg
            t == calls[i].ret
        IN /\ ~IsNaN(t)
           /\ NumLess(PyInt(0), t)
           /\ (raw = None \/ ~ParseFloat(raw[1]).ok
               \/ NumLeq(ParseFloat(raw[1]).val, PyInt(0)))
                 => t = ToFloat(PyInt(DOWNLOAD_TIMEOUT))
           /\ (raw # None /\ ParseFloat(raw[1]).ok
               /\ NumLess(PyInt(0), ParseFloat(raw[1]).val))
                 => t = ParseFloat(raw[1]).val

\* C15 (as claimed): discover_tiles ends in one of three ways: it raises
\* ConnectionError exactly when opening the client, searching or iterating
\* the items fails; it raises ValueError "No swissALTI3D tiles found"
\* exactly when the search completes and no item has a matching tile; it
\* returns a non-empty list otherwise.
C15_ThreeOutcomes ==
    \A i \in CallsOf("discover_tiles") :
        LET answer == calls[i].arg.answer
            r == calls[i].ret
        IN /\ r.kind = "return" => r.tiles # <<>>
           /\ answer.fault # "none"
                => r.kind = S_ConnectionError
           /\ answer.fault = "none"
                => \/ r.kind = "return"
                   \/ r.kind = S_ValueError /\ r.msg = S_NoTilesFound

\* The geometry normalise_aoi works on when exactly one input is given.
GivenGeometry(arg) ==
    IF arg.bbox # None THEN bbox_to_geometry(arg.bbox[1]) ELSE arg.geojson[1]

ExactlyOne(arg) == (arg.geojson = None) # (arg.bbox = None)

\* The input passes the validation of bounding box and geometry.
ValidInput(arg) ==
    /\ arg.bbox # None => ~BBoxInvalid(arg.bbox[1])
    /\ ~GeometryInvalid(GivenGeometry(arg))

\* Two boxes have a point in common: on each axis the larger of the lower
\* ends is not beyond the smaller of the upper ends.
CommonPoint(a, b) ==
    /\ NumLeq(NumMax({a.xmin, b.xmin}), NumMin({a.xmax, b.xmax}))
    /\ NumLeq(NumMax({a.ymin, b.ymin}), NumMin({a.ymax, b.ymax}))

\* The bounding box of the input, in LV95.
InputBBox(arg) == geometry_to_bbox(reproject_geometry(GivenGeometry(arg), arg.crs))

\* C16: normalise_aoi raises "not both" when both inputs are given and
\* "provide either" when none is, whatever the inputs are worth (the check
\* comes before their validation); given exactly one valid input inside
\* the domain it returns an AOI whose bbox is in LV95 and whose source_crs
\* is the CRS it was called with.
C16_ExactlyOneInput ==
    \A i \in CallsOf("normalise_aoi") :
        LET arg == calls[i].arg
            r == calls[i].ret
        IN /\ (arg.geojson # None /\ arg.bbox # None)
                => ~r.ok /\ r.msg = S_NotBoth
           /\ (arg.geojson = None /\ arg.bbox = None)
                => ~r.ok /\ r.msg = S_Either
           /\ ExactlyOne(arg) => r.msg \notin {S_NotBoth, S_Either}
           /\ (ExactlyOne(arg) /\ ValidInput(arg)
               /\ CommonPoint(InputBBox(arg), LV95_BOUNDS))
                => /\ r.ok
                   /\ r.aoi[1].bbox.crs = LV95
                   /\ r.aoi[1].source_crs = arg.crs

\* Both inputs were given, neither of them valid, and the call was
\* refused for being given both.
C16_Witness ==
    \E i \in CallsOf("normalise_aoi") :
        /\ calls[i].arg.geojson # None /\ calls[i].arg.bbox # None
        /\ BBoxInvalid(calls[i].arg.bbox[1])
        /\ GeometryInvalid(calls[i].arg.geojson[1])
        /\ calls[i].ret.msg = S_NotBoth

\* C17: for a valid AOI given in LV95, normalise_aoi raises the
\* out-of-domain error exactly when the AOI's bounding box has no point in
\* common with the reference box; a box that overlaps it partly or only
\* touches its edge is accepted.
C17_OutsideOnlyWhenDisjoint ==
    \A i \in CallsOf("normalise_aoi") :
        LET arg == calls[i].arg
            r == calls[i].ret
        IN (ExactlyOne(arg) /\ arg.crs = LV95 /\ ValidInput(arg))
            => /\ (r.msg = S_Outside) <=> ~CommonPoint(InputBBox(arg), LV95_BOUNDS)
               /\ r.ok <=> CommonPoint(InputBBox(arg), LV95_BOUNDS)

\* A box whose east edge lies on the west edge of the reference box was
\* accepted.
C17_Witness ==
    \E i \in CallsOf("normalise_aoi") :
        /\ calls[i].arg.bbox # None /\ calls[i].arg.geojson = None
        /\ calls[i].arg.crs = LV95
        /\ NumEq(calls[i].arg.bbox[1].xmax, LV95_BOUNDS.xmin)
        /\ calls[i].ret.ok

\* The number of times f occurs in a list.
Occurrences(fs, f) == Cardinality({i \in 1..Len(fs) : fs[i] = f})

\* A feature's elevation, and the least x and y of its geometry.
ElevationOf(f) == IF f.elevation = None THEN PyFloat(0, 0) ELSE f.elevation[1]
MinX(f) == NumMin({pt[1] : pt \in {f.line[j] : j \in 1..Len(f.line)}})
MinY(f) == NumMin({pt[2] : pt \in {f.line[j] : j \in 1..Len(f.line)}})

\* C18: the features _build_canonical_geojson returns are its input
\* rearranged, and each is followed by one of the same or a higher
\* elevation; of two neighbours of equal elevation the second has the same
\* or a larger min-x, and with equal min-x the same or a larger min-y.
C18_SortedByElevationThenBounds ==
    \A i \in CallsOf("build_canonical_geojson") :
        LET input == calls[i].arg
            out == calls[i].ret
        IN /\ Len(out) = Len(input)
           /\ \A f \in Features : Occurrences(out, f) = Occurrences(input, f)
           /\ \A k \in 1..(Len(out) - 1) :
                LET a == out[k]
                    b == out[k + 1]
                IN /\ NumLeq(ElevationOf(a), ElevationOf(b))
                   /\ NumEq(ElevationOf(a), ElevationOf(b))
                        => NumLeq(MinX(a), MinX(b))
                   /\ (NumEq(ElevationOf(a), ElevationOf(b)) /\ NumEq(MinX(a), MinX(b)))
                        => NumLeq(MinY(a), MinY(b))

\* Three features were given, two neighbours of equal elevation and min-x
\* with the larger min-y first, and came out in another order.
C18_Witness ==
    \E i \in CallsOf("build_canonical_geojson") :
        LET input == calls[i].arg
        IN /\ Len(input) = MaxFeatures
           /\ calls[i].ret # input
           /\ \E k \in 1..(Len(input) - 1) :
                /\ NumEq(ElevationOf(input[k]), ElevationOf(input[k + 1]))
                /\ NumEq(MinX(input[k]), MinX(input[k + 1]))
                /\ NumLess(MinY(input[k + 1]), MinY(input[k]))

\* C20 (as claimed): whenever download_tile(d) returns, be it after a
\* fetch or on a cache hit, after whatever fetches, crashes and retries
\* came before, the directory of the tile holds a metadata.json that
\* records d.
C20_MetadataWhenReturned ==
    [][\A p \in Procs :
          (/\ call[p].pc \in {"dl_check", "dl_meta"}
           /\ Len(call'[p].paths) = Len(call[p].paths) + 1)
          => LET directory == PathParent(tile_path(CurTile(p)))
             IN /\ directory \in DOMAIN meta'
                /\ meta'[directory] = CurTile(p)]_vars

\* C21: a clipped raster leaves the disk only in the step after
\* count_contours of a run called with save_clipped_dem false, when
\* generate_contours and count_contours have returned and the manifest is
\* yet to be written; a run that fails in generate_contours or
\* count_contours leaves its raster on disk; a run that succeeds without
\* keeping the raster returns clipped_dem_path None.
C21_ClippedDemDiscardedLate ==
    [][/\ \A path \in (DOMAIN arts) \ (DOMAIN arts') :
             arts[path].kind = "dem"
             => /\ run.pc = "unlink"
                /\ ~run.args.save_clipped_dem
                /\ path = PathJoin(run.output_dir, S_dem_clip_tif)
                /\ InSeq("generate_contours", run.trace)
                /\ InSeq("count_contours", run.trace)
                /\ ~InSeq("write_manifest", run.trace)
                /\ run'.pc = "write_manifest"
       /\ (run'.pc = "failed"
           /\ run'.err.step \in {"generate_contours", "count_contours"})
            => PathJoin(run'.output_dir, S_dem_clip_tif) \in DOMAIN arts'
       /\ (run'.pc = "done" /\ ~run'.args.save_clipped_dem)
            => /\ run'.result[1].clipped_dem_path = None
               /\ PathJoin(run'.output_dir, S_dem_clip_tif) \notin DOMAIN arts'
       /\ (run'.pc = "done" /\ run'.args.save_clipped_dem)
            => run'.result[1].clipped_dem_path
                 = Some(PathJoin(run'.output_dir, S_dem_clip_tif))]_vars

\* A run that does not keep the raster failed in generate_contours and the
\* raster it clipped is on disk.
C21_Witness ==
    /\ run.pc = "failed"
    /\ run.err.step = "generate_contours"
    /\ ~run.args.save_clipped_dem
    /\ PathJoin(run.output_dir, S_dem_clip_tif) \in DOMAIN arts
    /\ arts[PathJoin(run.output_dir, S_dem_clip_tif)].writer = run.id

\* C22 (as claimed): a file that is at a final tile path stays there with
\* the bytes it has: no step of any download_tile call, of the same caller
\* or of another one on the same cache root, puts another file at the path
\* or changes the bytes of the file.
C22_FinalPathWrittenOnce ==
    [][\A path \in TilePaths :
          path \in DOMAIN names
          => /\ path \in DOMAIN names'
             /\ names'[path] = names[path]
             /\ data'[names[path]] = data[names[path]]]_vars

\* C23 (as claimed): two callers at work on distinct descriptors do not
\* touch each other: a call that returned has at each of its paths a
\* complete body of its own descriptor, and a call that failed failed with
\* an error it can meet alone (its own temp file is there to be renamed).
C23_DistinctDescriptorsIndependent ==
    \A p \in {1, 2} :
        /\ call[p].pc = "done"
            => \A i \in 1..Len(call[p].paths) :
                  /\ call[p].paths[i] \in DOMAIN names
                  /\ ReadFile(call[p].paths[i])
                       \in ServerBodies(call[p].tiles[i].asset_href)
        /\ call[p].pc \in {"failed", "dl_cleanup"}
            => call[p].err.kind # "FileNotFoundError"

\* The steps the order is claimed for.
ClaimedOrder ==
    <<"normalise_aoi", "output_dir", "discover_tiles", "ensure_tiles",
      "build_vrt", "clip_dem", "get_dem_stats", "generate_contours",
      "count_contours", "write_manifest">>

\* The steps of them that the run has made, in the order it made them.
StepsMade(r) ==
    SelectSeq(r.trace, LAMBDA step : \E i \in 1..Len(ClaimedOrder) : ClaimedOrder[i] = step)

\* The step of them the run is in, if it is in one.
StepsBegun(r) ==
    IF r.pc = "ensuring" THEN Append(StepsMade(r), "ensure_tiles")
    ELSE IF \E i \in 1..Len(ClaimedOrder) : ClaimedOrder[i] = r.pc
         THEN Append(StepsMade(r), r.pc)
    ELSE StepsMade(r)

\* The manifests the run numbered id has among the files a.
ManifestsIn(a, id) ==
    {f \in DOMAIN a : a[f].kind = "manifest" /\ a[f].writer = id}

\* C24: the steps a run has made or is in are, in this order and each
\* once, the first of: normalise AOI, output directory, discover tiles,
\* ensure_tiles, build_vrt, clip_dem, get_dem_stats, generate_contours,
\* count_contours, write manifest; a run that succeeded made them all and
\* has written one manifest; the manifest is written by the last step only,
\* and once it is written the run writes or removes no file.
C24_FixedStepOrder ==
    [][/\ StepsBegun(run') = SubSeq(ClaimedOrder, 1, Len(StepsBegun(run')))
       /\ run'.pc = "done"
            => /\ StepsMade(run') = ClaimedOrder
               /\ Cardinality(ManifestsIn(arts', run'.id)) = 1
       /\ (ManifestsIn(arts', run'.id) # ManifestsIn(arts, run'.id))
            => /\ run.pc = "write_manifest"
               /\ run'.pc = "done"
               /\ run'.id = run.id
       /\ (ManifestsIn(arts, run.id) # {} /\ run'.id = run.id)
            => /\ arts' = arts
               /\ names' = names
               /\ data' = data]_vars

\* A second run succeeded, having made every step and written its manifest.
C24_Witness ==
    /\ run.pc = "done"
    /\ run.id = MaxRuns
    /\ StepsMade(run) = ClaimedOrder
    /\ Cardinality(ManifestsOf(run.id)) = 1

\* C25 (as claimed): what is at a final tile path changes in one way only:
\* a call that has written its whole body to its temp file, a path other
\* than the final one, renames that file, which holds that body, to the
\* final path; no write of a download lands in a file at a final path.
C25_FinalPathOnlyByRename ==
    [][\A path \in TilePaths :
          LET before == IF path \in DOMAIN names THEN <<ReadFile(path)>> ELSE <<>>
              after == IF path \in DOMAIN names' THEN <<data'[names'[path]]>> ELSE <<>>
          IN after # before
             => \E p \in Procs :
                   /\ call[p].pc = "dl_write"
                   /\ call'[p].pc = "dl_meta"
                   /\ tile_path(CurTile(p)) = path
                   /\ WithSuffixTmp(path) # path
                   /\ call[p].off = Len(call[p].body)
                   /\ after = <<call[p].body>>]_vars

\* C26 (as claimed): when download_tile(d) has raised, for whatever
\* reason, no file is at tile_path(d) unless one was there before the call
\* (the call made a request for d only because none was there).
C26_RaiseLeavesNoTile ==
    \A p \in Procs :
        (call[p].pc = "failed" /\ InSeq(call[p].idx, call[p].gets))
            => tile_path(CurTile(p)) \notin DOMAIN names

\* C26 (amended): when download_tile(d) raises before its rename has
\* succeeded (HTTP error, broken stream, checksum mismatch, failed rename),
\* no file is at tile_path(d) unless one was there before the call; when it
\* raises in writing metadata.json, the tile it has promoted stays at
\* tile_path(d).
C26_RaiseBeforeRenameLeavesNoTile ==
    [][\A p \in Procs :
          (call[p].pc # "failed" /\ call'[p].pc = "failed")
          => LET dest == tile_path(CurTile(p))
             IN IF call[p].pc = "dl_meta"
                THEN dest \in DOMAIN names'
                ELSE InSeq(call[p].idx, call'[p].gets) => dest \notin DOMAIN names']_vars

\* A call that requested the tile has raised and the tile is at its final
\* path: the write of metadata.json failed.
C26_Witness ==
    /\ call[1].pc = "failed"
    /\ call[1].err.kind = "OSError"
    /\ InSeq(call[1].idx, call[1].gets)
    /\ tile_path(CurTile(1)) \in DOMAIN names
    /\ ReadFile(tile_path(CurTile(1))) \in ServerBodies(CurTile(1).asset_href)

\* C27 (as claimed): every path download_tile has returned for a descriptor
\* whose checksum is a SHA-256 digest, plain or as a multihash, holds content
\* with that digest, also when the file was promoted by an earlier call for a
\* descriptor with the same path and another checksum.
C27_ReturnedPathMatchesChecksum ==
    \A p \in Procs : \A f \in call[p].fetched :
        f.path \in DOMAIN names => ~ChecksumMismatch(f.tile, ReadFile(f.path))

\* The file at path is reached inside directory dir.
LiesInside(path, dir) ==
    LET r == Resolve(path, <<>>)
    IN Len(r) > Len(dir) /\ SubSeq(r, 1, Len(dir)) = dir

\* C28 (as claimed): whatever strings the tile index puts in the ids of a
\* descriptor, every file download_tile makes (the temp file, the tile, the
\* metadata.json) lies inside <cache_root>/raw.
C28_WritesStayInsideRaw ==
    /\ \A path \in DOMAIN names : LiesInside(path, RawDir)
    /\ \A d \in DOMAIN meta : LiesInside(Append(d, S_metadata_json), RawDir)

\* The call's arguments are invalid: both or neither AOI source, a geometry
\* that is not valid, an AOI outside the domain, an interval that is not
\* positive, a negative simplify_tolerance.
InvalidCall(a) ==
    \/ a.geojson # None /\ a.bbox # None
    \/ a.geojson = None /\ a.bbox = None
    \/ a.geojson # None /\ GeometryInvalid(a.geojson[1])
    \/ a.bbox # None /\ OutsideSwitzerland(a.bbox[1])
    \/ NumLeq(a.interval, PyInt(0))
    \/ NumLess(a.simplify_tolerance, PyInt(0))

\* C29: a run_contour_pipeline call with an invalid AOI or invalid
\* parameters makes no step but the validation of the AOI and of the
\* parameters, raises at the second of them at the latest, and none of its
\* steps changes a file, a directory, a metadata record or an artifact, or
\* starts a tile query or a download.
C29_InvalidInputTouchesNothing ==
    [][(run.pc \notin RunEnded /\ InvalidCall(run.args))
          => /\ UNCHANGED <<names, data, dirs, meta, arts, call>>
             /\ run'.pc # "done"
             /\ \A i \in 1..Len(run'.trace) :
                   run'.trace[i] \in {"normalise_aoi", "ContourParams"}
             /\ run.pc = "ContourParams" => run'.pc = "failed"]_vars

\* A run with a valid AOI and a negative simplify_tolerance has raised, on
\* a cache root an earlier run filled, its output directory not made.
C29_Witness ==
    /\ run.pc = "failed"
    /\ run.id = 2
    /\ NumLess(run.args.simplify_tolerance, PyInt(0))
    /\ run.trace = <<"normalise_aoi", "ContourParams">>
    /\ run.args.output_dir = Some(OutDir)
    /\ OutDir \notin dirs
    /\ DOMAIN arts # {}

\* Directory d is dir or lies inside it.
WithinDir(d, dir) == d = dir \/ LiesInside(d, dir)

\* C30: while a run that was given output_dir is under way, no directory is
\* made in <cache_root>/derived, every artifact written or removed lies
\* inside output_dir, and what changes in the cache root (files,
\* directories, metadata records) lies in <cache_root>/raw.
C30_OutputDirKeepsCacheClean ==
    [][(run.pc \notin RunEnded /\ run.args.output_dir # None)
          => LET out == run.args.output_dir[1]
             IN /\ \A d \in dirs' \ dirs :
                      /\ ~WithinDir(d, DerivedDir)
                      /\ LiesInside(d, CacheRoot) => WithinDir(d, RawDir)
                /\ \A f \in (DOMAIN arts) \cup (DOMAIN arts') :
                      (f \notin DOMAIN arts \/ f \notin DOMAIN arts' \/ arts'[f] # arts[f])
                          => LiesInside(f, out)
                /\ \A f \in (DOMAIN names) \cup (DOMAIN names') :
                      (f \notin DOMAIN names \/ f \notin DOMAIN names' \/ names'[f] # names[f])
                          => LiesInside(f, RawDir)
                /\ \A d \in (DOMAIN meta) \cup (DOMAIN meta') :
                      (d \notin DOMAIN meta \/ d \notin DOMAIN meta' \/ meta'[d] # meta[d])
                          => LiesInside(d, RawDir)]_vars

\* A run given output_dir has returned: its four artifacts' survivors are in
\* output_dir, its tiles in raw, and the cache has no derived directory.
C30_Witness ==
    /\ run.pc = "done"
    /\ run.args.output_dir = Some(OutDir)
    /\ PathJoin(OutDir, S_manifest_json) \in DOMAIN arts
    /\ PathJoin(OutDir, S_contours_geojson) \in DOMAIN arts
    /\ \A d \in dirs : ~WithinDir(d, DerivedDir)
    /\ tile_path(TileA) \in DOMAIN names

====
